---------------------------- MODULE Spec2Model ----------------------------
(***************************************************************************)
(* Model of the control loop of scripts/ems_priority.py: the per-tick      *)
(* arbitration of traffic-light states between emergency vehicles, trains  *)
(* and road traffic, with the per-train hold budget ledger.                *)
(*                                                                         *)
(* The other scripts of the repository that drive traffic lights          *)
(* (soul_train.py, preempt_hard.py, preemption_demo.py,                    *)
(* preempt_network.py, run_experiment.py) are modelled further down, each  *)
(* with its own variables and its own specification.                       *)
(*                                                                         *)
(* Units: distances in metres, times in tenths of a second for             *)
(* ems_priority.py and in seconds for the other scripts.                   *)
(***************************************************************************)
EXTENDS Integers, Sequences, FiniteSets, TLC

(***************************************************************************)
(* Tunables of ems_priority.py                                             *)
(***************************************************************************)
EMS_DIST == 75

TRAIN_WARN_DIST == 180

TRAIN_HOLD_MAX == 12

\* PULSE = 0.8 s, in tenths of a second
PULSE == 8

\* length of one simulation step (SUMO default 1.0 s), in tenths of a second
StepLen == 10

\* number of loop iterations explored
MaxTicks == 14

\* number of loop iterations explored when the mover can reject a write
MaxFaultTicks == 2

\* largest number of controlled links of the state vectors built on their own
MaxLinks == 4

\* number of iterations of the soul_train loop explored
MaxSoulTicks == 14

\* number of iterations of the preempt_hard / preemption_demo loop explored
MaxPreTicks == 12

\* number of iterations of the preempt_network loop explored
MaxNetTicks == 6

\* number of iterations of the run_experiment loop explored
MaxExpTicks == 3

(***************************************************************************)
(* The network the controller is started on.  An edge identifier is a      *)
(* sequence of name parts; startswith("rail_") is "the first part is       *)
(* rail_".  ControlledLinks[tls][i+1] is the incoming edge of link i.      *)
(* X is a level crossing, Y a road junction, and Z a traffic light that    *)
(* getControlledLinks() reports without any link.                          *)
(***************************************************************************)
TLS == {"X", "Y", "Z"}

ControlledLinks ==
    [tls \in TLS |->
        IF tls = "X"
        THEN << <<"w2x">>, <<"e2x">>, <<"rail_", "n2x">>, <<"rail_", "s2x">> >>
        ELSE IF tls = "Y"
        THEN << <<"x2y">>, <<"s2y">> >>
        ELSE << >>]

Vehicles == {"e1", "e2", "tr"}

getTypeID(v) == IF v = "tr" THEN "train" ELSE "emergency"

is_ems(v) == getTypeID(v) = "emergency"

is_train(v) == getTypeID(v) = "train"

\* variant: "rail_" in inc_edge
startswith_rail_anywhere(inc_edge) ==
    \E i \in DOMAIN inc_edge : inc_edge[i] = "rail_"

startswith_rail(inc_edge) == Head(inc_edge) = "rail_"

\* analyze_tls for the list ctrl that getControlledLinks(tls_id) returns
analyze_links(ctrl) ==
    LET n == Len(ctrl)
        rail_idxs == {idx \in 0..(n - 1) : startswith_rail(ctrl[idx + 1])}
        road_idxs == {idx \in 0..(n - 1) : ~startswith_rail(ctrl[idx + 1])}
        road_edges == {ctrl[idx + 1] : idx \in road_idxs}
    IN  [n |-> n,
         rail_idxs |-> rail_idxs,
         road_idxs |-> road_idxs,
         inc_edge_to_link_idxs |->
             [e \in road_edges |-> {idx \in road_idxs : ctrl[idx + 1] = e}],
         is_crossing |-> Cardinality(rail_idxs) > 0]

analyze_tls(tls_id) == analyze_links(ControlledLinks[tls_id])

tls_meta == [tls \in TLS |-> analyze_tls(tls)]

\* variant: the overrides are applied before the greens
build_state_red_first(n, greens, force_red) ==
    [i \in 1..n |-> IF (i - 1) \in greens THEN "G" ELSE "r"]

build_state(n, greens, force_red) ==
    LET s0 == [i \in 1..n |-> "r"]
        s1 == [i \in 1..n |-> IF (i - 1) \in greens THEN "G" ELSE s0[i]]
        s2 == [i \in 1..n |-> IF force_red # {} /\ (i - 1) \in force_red
                              THEN "r" ELSE s1[i]]
    IN  s2

(***************************************************************************)
(* Observations of one tick: what traci reports after simulationStep().    *)
(* A vehicle is in getIDList() or not; getNextTLS() is empty or starts     *)
(* with (tls, link index, distance).  Emergency vehicles drive on road     *)
(* edges and trains on rail edges, so an emergency vehicle's link is a     *)
(* road link and a train's link at a crossing is a rail link.              *)
(***************************************************************************)
Gone == [present |-> FALSE, nxt |-> << >>]

NoTLS == [present |-> TRUE, nxt |-> << >>]

At(tls, link, dist) ==
    [present |-> TRUE, nxt |-> << [tls |-> tls, link |-> link, dist |-> dist] >>]

EmsObs1 == {NoTLS, At("X", 0, 75), At("X", 0, 76), At("Y", 0, 75)}

EmsObs2 == {Gone, At("X", 1, 75)}

TrainObs == {Gone, NoTLS, At("X", 2, 24), At("X", 2, 25), At("X", 3, 70),
             At("X", 2, 180), At("Y", 0, 70)}

Observations ==
    {[v \in Vehicles |-> IF v = "e1" THEN a ELSE IF v = "e2" THEN b ELSE c] :
        a \in EmsObs1, b \in EmsObs2, c \in TrainObs}

getIDList(o) == {v \in Vehicles : o[v].present}

HasNext(o, v) == o[v].present /\ o[v].nxt # << >>

NextTLS(o, v) == o[v].nxt[1]

(***************************************************************************)
(* scripts/soul_train.py: the controller of one level crossing.  A lane    *)
(* identifier is a sequence of name parts; "_rail" in inc is "one of the   *)
(* parts is _rail".  SoulControlledLinks[i+1] is the list of incoming      *)
(* lanes of signal index i.  Distances are in metres, speeds in tenths of  *)
(* m/s, durations in seconds.                                              *)
(***************************************************************************)
SOUL_EMS_DIST == 120

SOUL_EMS_NEAR == 15

SOUL_TRAIN_WARN_DIST == 80

HOLD_ROAD_GREEN == 10

SOUL_TRAIN_HOLD_MAX == 12

(***************************************************************************)
(* Tunables of preempt_hard.py (HARD_) and preemption_demo.py (DEMO_);     *)
(* the other tunables have the same value in both files.                   *)
(***************************************************************************)
HARD_EMERGENCY_DIST == 150

DEMO_EMERGENCY_DIST == 180

ETA_MAX_SEC == 12

HOLD_GREEN_SEC == 8

HARD_REARM_SEC == 8

DEMO_REARM_SEC == 10

\* SPEED_FLOOR = 0.3 m/s, in tenths of a metre per second
SPEED_FLOOR == 3

(***************************************************************************)
(* Tunables of preempt_network.py                                          *)
(***************************************************************************)
NET_EMERGENCY_DIST == 170

NET_ETA_MAX_SEC == 15

NEAR_STOP_M == 15

NET_HOLD_GREEN_S == 12

RESTORE_COOLDOWN_S == 2

\* SPEED_FLOOR = 0.5 m/s, in tenths of a metre per second
NET_SPEED_FLOOR == 5

AGGRESSIVE_EMS == TRUE

(***************************************************************************)
(* Tunables of run_experiment.py                                           *)
(***************************************************************************)
APPROACH_M == 120

EXP_NEAR_STOP_M == 15

\* SPEED_STOP = 0.5 m/s, in tenths of a metre per second
SPEED_STOP == 5

EXP_HOLD_GREEN_S == 12

SoulControlledLinks ==
    << << <<"w2c", "_0">> >>,
       << <<"e2c", "_0">> >>,
       << <<"n2c", "_rail", "_0">> >>,
       << <<"s2c", "_rail", "_0">> >> >>

n_signals == Len(SoulControlledLinks)

contains_rail(inc) == \E i \in DOMAIN inc : inc[i] = "_rail"

is_rail_here(triples) == \E j \in DOMAIN triples : contains_rail(triples[j])

soul_rail_idxs ==
    {idx \in 0..(n_signals - 1) : is_rail_here(SoulControlledLinks[idx + 1])}

soul_road_idxs ==
    {idx \in 0..(n_signals - 1) : ~is_rail_here(SoulControlledLinks[idx + 1])}

\* variant: the road links keep their green when the rail links get theirs
soul_build_state_road_stays(base_len, road_idxs, rail_idxs, road_green, rail_green) ==
    [i \in 1..base_len |->
        IF (i - 1) \in rail_idxs THEN (IF rail_green THEN "G" ELSE "r")
        ELSE IF (i - 1) \in road_idxs THEN "G"
        ELSE "r"]

\* build_state of soul_train.py
soul_build_state(base_len, road_idxs, rail_idxs, road_green, rail_green) ==
    LET s0 == [i \in 1..base_len |-> "r"]
        s1 == [i \in 1..base_len |->
                IF (i - 1) \in road_idxs
                THEN (IF road_green THEN "G" ELSE "r") ELSE s0[i]]
        s2 == [i \in 1..base_len |->
                IF (i - 1) \in rail_idxs
                THEN (IF rail_green THEN "G" ELSE "r") ELSE s1[i]]
    IN  s2

Max(a, b) == IF a > b THEN a ELSE b

\* the state and the phase duration one call of force() sends
force(road_green, rail_green, hold_s) ==
    [state |-> soul_build_state(n_signals, soul_road_idxs, soul_rail_idxs,
                                road_green, rail_green),
     duration |-> Max(1, hold_s)]

(***************************************************************************)
(* State.  t, preempt_until and train_hold_left are the variables of       *)
(* main(); obs is the snapshot the mover reports in the current tick;      *)
(* iter holds the per-iteration locals (ems_green, blocked_tls,            *)
(* train_near, train_green, crossing_road_green, touched); decision,       *)
(* events, tls_cmds and directives are what the iteration emitted.         *)
(* held_run and fresh_run are history counters used to state the budget    *)
(* properties.  running is FALSE once an exception has ended the while     *)
(* loop; rejected is the intersection whose state write the mover rejected *)
(* in the tick, unqueryable the vehicle whose query raised in the tick.    *)
(* call is the last call of a function checked on its own, with its        *)
(* arguments and its result.  The soul_ variables are the state of         *)
(* soul_train.py: the snapshot of the tick, the train chosen as closest,   *)
(* its dict train_hold_left, the force() calls and the directives of the   *)
(* tick, the number of ticks taken, and, per train, the number of ticks in *)
(* which it was held or slowed since it came within the warn distance.     *)
(* The pre_ variables are the state of preempt_hard.py and                 *)
(* preemption_demo.py: the script started, the simulation time, the        *)
(* intersections requested in the iteration, the dict last_preempt_at, the *)
(* commands of the iteration and all commands sent so far.  The net_       *)
(* variables are the state of preempt_network.py: its time, the requests   *)
(* of the iteration, its dicts and its preempting set, the commands of the *)
(* iteration, and per intersection the time of the last iteration that     *)
(* had a request for it.  The exp_ variables are the state of              *)
(* run_experiment.py: the mode run() was called in, its time, the snapshot *)
(* of the iteration, active, results, the forced greens of the iteration   *)
(* and the rows of the CSV file.                                           *)
(***************************************************************************)
VARIABLES t, obs, train_hold_left, preempt_until, iter, decision, events,
          tls_cmds, directives, held_run, fresh_run, running, rejected,
          unqueryable, call, soul_obs, soul_closest, soul_train_hold_left,
          soul_forced, soul_directives, soul_ticks, soul_held_total,
          pre_prog, pre_t, pre_requests, pre_last_preempt_at, pre_cmds,
          pre_history, net_t, net_requests, net_saved_prog, net_saved_phase,
          net_last_request_t, net_preempting, net_cmds, net_asked_at,
          exp_mode, exp_t, exp_obs, exp_active, exp_results, exp_cmds,
          exp_csv

exp_vars == <<exp_mode, exp_t, exp_obs, exp_active, exp_results, exp_cmds,
              exp_csv>>

net_vars == <<net_t, net_requests, net_saved_prog, net_saved_phase,
              net_last_request_t, net_preempting, net_cmds, net_asked_at>>

pre_vars == <<pre_prog, pre_t, pre_requests, pre_last_preempt_at, pre_cmds,
              pre_history>>

script_vars == <<pre_vars, net_vars, exp_vars>>

soul_vars == <<soul_obs, soul_closest, soul_train_hold_left, soul_forced,
               soul_directives, soul_ticks, soul_held_total>>

ems_vars == <<t, obs, train_hold_left, preempt_until, iter, decision, events,
              tls_cmds, directives, held_run, fresh_run, running, rejected,
              unqueryable>>

vars == <<t, obs, train_hold_left, preempt_until, iter, decision, events,
          tls_cmds, directives, held_run, fresh_run, running, rejected,
          unqueryable, call, soul_obs, soul_closest, soul_train_hold_left,
          soul_forced, soul_directives, soul_ticks, soul_held_total,
          pre_prog, pre_t, pre_requests, pre_last_preempt_at, pre_cmds,
          pre_history, net_t, net_requests, net_saved_prog, net_saved_phase,
          net_last_request_t, net_preempting, net_cmds, net_asked_at,
          exp_mode, exp_t, exp_obs, exp_active, exp_results, exp_cmds,
          exp_csv>>

\* the trains and the emergency vehicle of the soul_train scenario
SoulTrains == {"t1", "t2"}

SoulEms == {"a1"}

\* no call made yet
NoCall == [fn |-> "none"]

\* soul_train.py before its loop: force(True, False, 5) of line 91
SoulStart ==
    /\ soul_obs = [dist |-> [v \in SoulTrains \cup SoulEms |-> -1],
                   spd |-> [v \in SoulEms |-> 0]]
    /\ soul_closest = "none"
    /\ soul_train_hold_left = << >>
    /\ soul_forced = <<force(TRUE, FALSE, 5)>>
    /\ soul_directives = {}
    /\ soul_ticks = 0
    /\ soul_held_total = [v \in SoulTrains |-> 0]

\* observation of a vehicle by the preempt scripts: its next traffic light
\* (empty when there is none) and its speed
PGone == [present |-> FALSE, nxt |-> << >>, spd |-> 0]

PNoTLS == [present |-> TRUE, nxt |-> << >>, spd |-> 0]

PAt(tls, link, dist, spd) ==
    [present |-> TRUE, nxt |-> <<[tls |-> tls, link |-> link, dist |-> dist]>>,
     spd |-> spd]

\* preempt_hard.py / preemption_demo.py before main(): last_preempt_at = {}
PreIdle ==
    /\ pre_prog = "none"
    /\ pre_t = 0
    /\ pre_requests = {}
    /\ pre_last_preempt_at = << >>
    /\ pre_cmds = << >>
    /\ pre_history = << >>

\* preempt_network.py before main(): the empty dicts and set of lines 21-24;
\* net_asked_at is the time of the last iteration that had a request for the
\* intersection, -1 when there was none
NetIdle ==
    /\ net_t = 0
    /\ net_requests = << >>
    /\ net_saved_prog = << >>
    /\ net_saved_phase = << >>
    /\ net_last_request_t = << >>
    /\ net_preempting = {}
    /\ net_cmds = {}
    /\ net_asked_at = [k \in TLS |-> -1]

\* run_experiment.py before run(): active = {} and results = [] of lines
\* 32-33, no CSV file written
ExpIdle ==
    /\ exp_mode = "none"
    /\ exp_t = 0
    /\ exp_obs = [v \in Vehicles |-> PGone]
    /\ exp_active = << >>
    /\ exp_results = << >>
    /\ exp_cmds = {}
    /\ exp_csv = << >>

\* the other scripts before their loops
ScriptsStart == PreIdle /\ NetIdle /\ ExpIdle

\* keys the ledger can hold: (crossing, train)
Keys == {k \in TLS \X Vehicles : is_train(k[2]) /\ tls_meta[k[1]].is_crossing}

(***************************************************************************)
(* 1) EMS claims                                                           *)
(***************************************************************************)
\* variant: the claim distance taken exclusive
within_ems_dist_strict(dist) == dist < EMS_DIST

within_ems_dist(dist) == dist <= EMS_DIST

ems_claim(o, v) ==
    /\ v \in getIDList(o)
    /\ is_ems(v)
    /\ HasNext(o, v)
    /\ within_ems_dist(NextTLS(o, v).dist)

ems_green(o) ==
    [tls_id \in {NextTLS(o, v).tls : v \in {w \in Vehicles : ems_claim(o, w)}} |->
        {NextTLS(o, v).link :
            v \in {w \in Vehicles : ems_claim(o, w) /\ NextTLS(o, w).tls = tls_id}}]

\* the mode settings sent to every claiming emergency vehicle
ems_modes(o) ==
    {[veh |-> v, op |-> op, arg |-> 0] :
        v \in {w \in Vehicles : ems_claim(o, w)},
        op \in {"setLaneChangeMode", "setSpeedMode"}}

(***************************************************************************)
(* 2) Trains near crossings                                                *)
(***************************************************************************)
\* variant: the warn distance taken inclusive
in_warn_zone_inclusive(dist) == dist <= TRAIN_WARN_DIST

in_warn_zone(dist) == dist < TRAIN_WARN_DIST

\* a train the second loop does not skip
\* variant: a train is managed at any intersection, crossing or not
managed_train_any_tls(o, v) ==
    /\ v \in getIDList(o)
    /\ is_train(v)
    /\ HasNext(o, v)
    /\ NextTLS(o, v).tls \in DOMAIN tls_meta

managed_train(o, v) ==
    /\ v \in getIDList(o)
    /\ is_train(v)
    /\ HasNext(o, v)
    /\ NextTLS(o, v).tls \in DOMAIN tls_meta
    /\ tls_meta[NextTLS(o, v).tls].is_crossing

train_near(o) ==
    {NextTLS(o, v).tls :
        v \in {w \in Vehicles : managed_train(o, w) /\ in_warn_zone(NextTLS(o, w).dist)}}

key_of(o, v) == <<NextTLS(o, v).tls, v>>

\* variant: "get(key) or TRAIN_HOLD_MAX", an entry at zero read as missing
hold_left_zero_is_fresh(L, key) ==
    IF key \in DOMAIN L /\ L[key] # 0 THEN L[key] ELSE TRAIN_HOLD_MAX

\* variant: a fresh budget one tick too long
hold_left_extra(L, key) == IF key \in DOMAIN L THEN L[key] ELSE TRAIN_HOLD_MAX + 1

\* train_hold_left.get(key, TRAIN_HOLD_MAX)
hold_left(L, key) == IF key \in DOMAIN L THEN L[key] ELSE TRAIN_HOLD_MAX

\* variant: a hold is still allowed with nothing left
budget_available_at_zero(left) == left >= 0

\* variant: a full budget does not count as available
budget_available_below_max(left) == left > 0 /\ left < TRAIN_HOLD_MAX

budget_available(left) == left > 0

\* variant: the budget is never charged
charge_none(left) == left

\* variant: the charge has the wrong sign
charge_up(left) == left + 1

\* variant: the budget is charged twice per tick
charge_twice(left) == left - 2

charge(left) == left - 1

\* variant: two bands only, every distance from 25 m on slowed to 3.0
slow_speed_two_bands(dist) == IF dist < 25 THEN 1 ELSE 30

\* target speed of the slowDown directive, in tenths of m/s
slow_speed(dist) == IF dist < 25 THEN 1 ELSE IF dist < 70 THEN 30 ELSE 60

\* variant: the hold branch is taken whether or not the crossing is blocked
ems_hold_branch_unblocked(o, blocked, v) ==
    /\ managed_train(o, v)
    /\ in_warn_zone(NextTLS(o, v).dist)

\* the branch "tls_id in blocked_tls and dist < TRAIN_WARN_DIST"
ems_hold_branch(o, blocked, v) ==
    /\ managed_train(o, v)
    /\ NextTLS(o, v).tls \in blocked
    /\ in_warn_zone(NextTLS(o, v).dist)

held_trains(o, blocked, L) ==
    {v \in Vehicles :
        /\ ems_hold_branch(o, blocked, v)
        /\ budget_available(hold_left(L, key_of(o, v)))}

released_trains(o, blocked, L) ==
    {v \in Vehicles :
        \/ /\ ems_hold_branch(o, blocked, v)
           /\ ~budget_available(hold_left(L, key_of(o, v)))
        \/ /\ managed_train(o, v)
           /\ ~ems_hold_branch(o, blocked, v)
           /\ in_warn_zone(NextTLS(o, v).dist)}

train_green(o, released) ==
    [tls_id \in {NextTLS(o, v).tls : v \in released} |->
        {NextTLS(o, v).link : v \in {w \in released : NextTLS(o, w).tls = tls_id}}]

train_directives(o, held, released) ==
    {[veh |-> v, op |-> "slowDown", arg |-> slow_speed(NextTLS(o, v).dist)] :
        v \in held}
    \cup {[veh |-> v, op |-> "setSpeed", arg |-> -10] : v \in released}

\* the ledger after the train loop
charged_ledger(o, held, L) ==
    LET hk == {key_of(o, v) : v \in held}
    IN  [key \in DOMAIN L \cup hk |->
            IF key \in hk THEN charge(hold_left(L, key)) ELSE L[key]]

(***************************************************************************)
(* 3) Anti-starvation at crossings                                         *)
(***************************************************************************)
\* variant: road green at a crossing whenever no EMS claims it
crossing_road_green_ignoring_trains(blocked, near) ==
    [tls_id \in {x \in DOMAIN tls_meta :
                    /\ tls_meta[x].is_crossing
                    /\ x \notin blocked} |->
        tls_meta[tls_id].road_idxs]

\* variant: the fallback is suppressed while any intersection is claimed
crossing_road_green_while_none_blocked(blocked, near) ==
    [tls_id \in {x \in DOMAIN tls_meta :
                    /\ tls_meta[x].is_crossing
                    /\ blocked = {}
                    /\ x \notin near} |->
        tls_meta[tls_id].road_idxs]

crossing_road_green(blocked, near) ==
    [tls_id \in {x \in DOMAIN tls_meta :
                    /\ tls_meta[x].is_crossing
                    /\ x \notin blocked
                    /\ x \notin near} |->
        tls_meta[tls_id].road_idxs]

(***************************************************************************)
(* 4) Resolution and emission of the forced states                         *)
(***************************************************************************)
\* variant: the crossings of the road-green fallback are not iterated
touched_without_fallback(eg, tg, crg) == DOMAIN eg \cup DOMAIN tg

touched(eg, tg, crg) == DOMAIN eg \cup DOMAIN tg \cup DOMAIN crg

\* variant: the train request is looked at before the EMS claim
resolve_train_first(tls_id, eg, tg, crg) ==
    LET g0 == IF tls_id \in DOMAIN crg THEN crg[tls_id] ELSE {}
        g1 == IF tls_id \in DOMAIN tg THEN g0 \cup tg[tls_id] ELSE g0
    IN  IF tls_id \in DOMAIN tg
        THEN [greens |-> g1, force_red |-> {},
              event_type |-> "train_request", source |-> "train"]
        ELSE IF tls_id \in DOMAIN eg
        THEN [greens |-> eg[tls_id],
              force_red |-> tls_meta[tls_id].rail_idxs,
              event_type |-> "ems_preempt", source |-> "ems"]
        ELSE IF tls_id \in DOMAIN crg
        THEN [greens |-> g1, force_red |-> {},
              event_type |-> "road_keep_green", source |-> "controller"]
        ELSE [greens |-> g1, force_red |-> {},
              event_type |-> "other", source |-> "controller"]

\* variant: an EMS claim forces every link of the intersection red
resolve_ems_forces_all(tls_id, eg, tg, crg) ==
    LET g0 == IF tls_id \in DOMAIN crg THEN crg[tls_id] ELSE {}
        g1 == IF tls_id \in DOMAIN tg THEN g0 \cup tg[tls_id] ELSE g0
    IN  IF tls_id \in DOMAIN eg
        THEN [greens |-> eg[tls_id],
              force_red |-> 0..(tls_meta[tls_id].n - 1),
              event_type |-> "ems_preempt", source |-> "ems"]
        ELSE IF tls_id \in DOMAIN tg
        THEN [greens |-> g1, force_red |-> {},
              event_type |-> "train_request", source |-> "train"]
        ELSE IF tls_id \in DOMAIN crg
        THEN [greens |-> g1, force_red |-> {},
              event_type |-> "road_keep_green", source |-> "controller"]
        ELSE [greens |-> g1, force_red |-> {},
              event_type |-> "other", source |-> "controller"]

\* variant: an EMS claim replaces the greens but forces no link red
resolve_ems_forces_nothing(tls_id, eg, tg, crg) ==
    LET g0 == IF tls_id \in DOMAIN crg THEN crg[tls_id] ELSE {}
        g1 == IF tls_id \in DOMAIN tg THEN g0 \cup tg[tls_id] ELSE g0
    IN  IF tls_id \in DOMAIN eg
        THEN [greens |-> eg[tls_id], force_red |-> {},
              event_type |-> "ems_preempt", source |-> "ems"]
        ELSE IF tls_id \in DOMAIN tg
        THEN [greens |-> g1, force_red |-> {},
              event_type |-> "train_request", source |-> "train"]
        ELSE IF tls_id \in DOMAIN crg
        THEN [greens |-> g1, force_red |-> {},
              event_type |-> "road_keep_green", source |-> "controller"]
        ELSE [greens |-> g1, force_red |-> {},
              event_type |-> "other", source |-> "controller"]

\* variant: an EMS claim adds its links to the greens collected so far and
\* forces nothing red
resolve_train_joins(tls_id, eg, tg, crg) ==
    LET g0 == IF tls_id \in DOMAIN crg THEN crg[tls_id] ELSE {}
        g1 == IF tls_id \in DOMAIN tg THEN g0 \cup tg[tls_id] ELSE g0
    IN  IF tls_id \in DOMAIN eg
        THEN [greens |-> g1 \cup eg[tls_id], force_red |-> {},
              event_type |-> "ems_preempt", source |-> "ems"]
        ELSE IF tls_id \in DOMAIN tg
        THEN [greens |-> g1, force_red |-> {},
              event_type |-> "train_request", source |-> "train"]
        ELSE IF tls_id \in DOMAIN crg
        THEN [greens |-> g1, force_red |-> {},
              event_type |-> "road_keep_green", source |-> "controller"]
        ELSE [greens |-> g1, force_red |-> {},
              event_type |-> "other", source |-> "controller"]

resolve(tls_id, eg, tg, crg) ==
    LET g0 == IF tls_id \in DOMAIN crg THEN crg[tls_id] ELSE {}
        g1 == IF tls_id \in DOMAIN tg THEN g0 \cup tg[tls_id] ELSE g0
    IN  IF tls_id \in DOMAIN eg
        THEN [greens |-> eg[tls_id],
              force_red |-> tls_meta[tls_id].rail_idxs,
              event_type |-> "ems_preempt", source |-> "ems"]
        ELSE IF tls_id \in DOMAIN tg
        THEN [greens |-> g1, force_red |-> {},
              event_type |-> "train_request", source |-> "train"]
        ELSE IF tls_id \in DOMAIN crg
        THEN [greens |-> g1, force_red |-> {},
              event_type |-> "road_keep_green", source |-> "controller"]
        ELSE [greens |-> g1, force_red |-> {},
              event_type |-> "other", source |-> "controller"]

decide(tls_id, eg, tg, crg) ==
    LET d == resolve(tls_id, eg, tg, crg)
    IN  [greens |-> d.greens, force_red |-> d.force_red,
         event_type |-> d.event_type, source |-> d.source,
         state |-> build_state(tls_meta[tls_id].n, d.greens, d.force_red)]

\* the orders in which "for tls_id in touched" can enumerate the set
Orders(S) ==
    {s \in [1..Cardinality(S) -> S] :
        \A i, j \in 1..Cardinality(S) : i # j => s[i] # s[j]}

(***************************************************************************)
(* 5) Expiry of preempt_until and clean-up of the ledger                   *)
(***************************************************************************)
stamp_windows(pu, tch, now) ==
    [tls_id \in DOMAIN pu \cup tch |->
        IF tls_id \in tch THEN now + PULSE + 1 ELSE pu[tls_id]]

\* variant: no entry is ever removed
clear_expired_keeps_all(pu, now) == pu

clear_expired(pu, now) ==
    [tls_id \in {x \in DOMAIN pu : ~(now >= pu[x])} |-> pu[tls_id]]

\* getNextTLS(train_id) is empty, or raises because the train is gone
prune_key(o, key) == ~(o[key[2]].present) \/ o[key[2]].nxt = << >>

\* variant: the clean-up also drops an exhausted entry
prune_exhausted(o, L) ==
    [key \in {k \in DOMAIN L : ~prune_key(o, k) /\ L[k] > 0} |-> L[key]]

prune(o, L) == [key \in {k \in DOMAIN L : ~prune_key(o, k)} |-> L[key]]

(***************************************************************************)
(* History counters.  held_run[k]: consecutive ticks, up to now, in which  *)
(* the train of k got a slowDown for crossing k[1].  fresh_run[k]:         *)
(* consecutive ticks, up to now, in which the train was in the warn zone   *)
(* of the EMS-blocked crossing, counted from a tick that started without   *)
(* a ledger entry for k (0 when there is no such run).  Both saturate.     *)
(***************************************************************************)
Min(a, b) == IF a < b THEN a ELSE b

next_held_run(o, held, hr) ==
    [k \in Keys |->
        IF k[2] \in held /\ key_of(o, k[2]) = k
        THEN Min(hr[k] + 1, TRAIN_HOLD_MAX + 1) ELSE 0]

next_fresh_run(o, blocked, L, fr) ==
    [k \in Keys |->
        IF ems_hold_branch(o, blocked, k[2]) /\ key_of(o, k[2]) = k
        THEN IF k \notin DOMAIN L THEN 1
             ELSE IF fr[k] > 0 THEN Min(fr[k] + 1, TRAIN_HOLD_MAX + 2) ELSE 0
        ELSE 0]

(***************************************************************************)
(* One iteration of the while loop of main(), for the snapshot o read at   *)
(* simulation time now.  The locals are computed once, in program order.   *)
(***************************************************************************)
Step(o, now) ==
    \E eg \in {ems_green(o)} :
    \E near \in {train_near(o)} :
    \E held \in {held_trains(o, DOMAIN eg, train_hold_left)} :
    \E released \in {released_trains(o, DOMAIN eg, train_hold_left)} :
    \E tg \in {train_green(o, released)} :
    \E crg \in {crossing_road_green(DOMAIN eg, near)} :
    \E tch \in {touched(eg, tg, crg)} :
    \E dec \in {[tls_id \in tch |-> decide(tls_id, eg, tg, crg)]} :
    \E order \in Orders(tch) :
        /\ t' = now
        /\ obs' = o
        /\ iter' = [ems_green |-> eg,
                    blocked_tls |-> DOMAIN eg,
                    train_near |-> near,
                    train_green |-> tg,
                    crossing_road_green |-> crg,
                    touched |-> tch]
        /\ directives' = ems_modes(o) \cup train_directives(o, held, released)
        /\ decision' = dec
        /\ events' = [i \in 1..Len(order) |->
                        [time |-> now,
                         event_type |-> dec[order[i]].event_type,
                         source |-> dec[order[i]].source,
                         tls_id |-> order[i],
                         state |-> dec[order[i]].state]]
        /\ tls_cmds' = [i \in 1..Len(order) |->
                        [tls_id |-> order[i],
                         state |-> dec[order[i]].state,
                         duration |-> PULSE]]
        /\ preempt_until' = clear_expired(stamp_windows(preempt_until, tch, now), now)
        /\ train_hold_left' = prune(o, charged_ledger(o, held, train_hold_left))
        /\ held_run' = next_held_run(o, held, held_run)
        /\ fresh_run' = next_fresh_run(o, DOMAIN eg, train_hold_left, fresh_run)
        /\ running' = TRUE
        /\ rejected' = {}
        /\ unqueryable' = {}
        /\ UNCHANGED <<call, soul_vars, script_vars>>

Init ==
    /\ t = 0
    /\ obs = [v \in Vehicles |-> Gone]
    /\ train_hold_left = << >>
    /\ preempt_until = << >>
    /\ iter = [ems_green |-> << >>, blocked_tls |-> {}, train_near |-> {},
               train_green |-> << >>, crossing_road_green |-> << >>,
               touched |-> {}]
    /\ decision = << >>
    /\ events = << >>
    /\ tls_cmds = << >>
    /\ directives = {}
    /\ held_run = [k \in Keys |-> 0]
    /\ fresh_run = [k \in Keys |-> 0]
    /\ running = TRUE
    /\ rejected = {}
    /\ unqueryable = {}
    /\ call = NoCall
    /\ SoulStart
    /\ ScriptsStart

Horizon == MaxTicks * StepLen

Tick ==
    /\ running
    /\ t < Horizon
    /\ \E o \in Observations : Step(o, t + StepLen)

Next == Tick

Spec == Init /\ [][Next]_vars

(***************************************************************************)
(* The loop as it runs for ever: the same iteration on a smaller set of    *)
(* snapshots (a stream of emergency vehicles can keep a crossing claimed   *)
(* on every tick); past the horizon the clock reading is no longer         *)
(* tracked.                                                                *)
(* The loop condition getMinExpectedNumber() > 0 holds as long as a        *)
(* vehicle is in the network, so an iteration is always taken.             *)
(***************************************************************************)
LiveObservations ==
    {o \in Observations :
        /\ o["e1"] \in {NoTLS, At("X", 0, 75)}
        /\ o["e2"] \in {Gone, At("X", 1, 75)}
        /\ o["tr"] \in {Gone, NoTLS, At("X", 3, 70), At("X", 2, 180)}}

LiveTick ==
    /\ running
    /\ \E o \in LiveObservations :
            Step(o, IF t < Horizon THEN t + StepLen ELSE t)

LiveNext == LiveTick

LiveSpec == Init /\ [][LiveNext]_vars /\ WF_vars(LiveTick)

(***************************************************************************)
(* The loop under a mover that can fail.  A rejected state write: the      *)
(* iteration runs as in Step up to the call of setRedYellowGreenState for  *)
(* the i-th touched intersection, which raises TraCIException.  The event  *)
(* of that intersection is already written (line 259); the exception is    *)
(* caught nowhere in main(), so the rest of the for loop, the expiry of    *)
(* preempt_until and the clean-up of the ledger are not executed, and the  *)
(* finally clause closes the connection: the while loop has ended.         *)
(***************************************************************************)
RejectedStep(o, now) ==
    \E eg \in {ems_green(o)} :
    \E near \in {train_near(o)} :
    \E held \in {held_trains(o, DOMAIN eg, train_hold_left)} :
    \E released \in {released_trains(o, DOMAIN eg, train_hold_left)} :
    \E tg \in {train_green(o, released)} :
    \E crg \in {crossing_road_green(DOMAIN eg, near)} :
    \E tch \in {touched(eg, tg, crg)} :
    \E order \in Orders(tch) :
    \E i \in 1..Len(order) :
    \E dec \in {[tls_id \in {order[j] : j \in 1..i} |->
                    decide(tls_id, eg, tg, crg)]} :
        /\ t' = now
        /\ obs' = o
        /\ iter' = [ems_green |-> eg,
                    blocked_tls |-> DOMAIN eg,
                    train_near |-> near,
                    train_green |-> tg,
                    crossing_road_green |-> crg,
                    touched |-> tch]
        /\ directives' = ems_modes(o) \cup train_directives(o, held, released)
        /\ decision' = dec
        /\ events' = [j \in 1..i |->
                        [time |-> now,
                         event_type |-> dec[order[j]].event_type,
                         source |-> dec[order[j]].source,
                         tls_id |-> order[j],
                         state |-> dec[order[j]].state]]
        /\ tls_cmds' = [j \in 1..(i - 1) |->
                        [tls_id |-> order[j],
                         state |-> dec[order[j]].state,
                         duration |-> PULSE]]
        /\ preempt_until' =
                stamp_windows(preempt_until, {order[j] : j \in 1..(i - 1)}, now)
        /\ train_hold_left' = charged_ledger(o, held, train_hold_left)
        /\ held_run' = next_held_run(o, held, held_run)
        /\ fresh_run' = next_fresh_run(o, DOMAIN eg, train_hold_left, fresh_run)
        /\ running' = FALSE
        /\ rejected' = {order[i]}
        /\ unqueryable' = {}
        /\ UNCHANGED <<call, soul_vars, script_vars>>

(***************************************************************************)
(* The loop when a vehicle u of getIDList() cannot be queried:             *)
(* getTypeID(u), called by is_ems(u) on line 162, raises TraCIException.   *)
(* The logging part of the iteration catches the exception (lines          *)
(* 122-144); the loop of lines 161-172 does not.  The emergency vehicles   *)
(* enumerated before u have been processed; the train loop, the emission,  *)
(* the expiry and the clean-up are not executed, and the finally clause    *)
(* closes the connection.                                                  *)
(***************************************************************************)
UnqueryableStep(o, now) ==
    \E u \in getIDList(o) :
    \E before \in SUBSET (getIDList(o) \ {u}) :
    \E claims \in {{v \in before : ems_claim(o, v)}} :
        /\ t' = now
        /\ obs' = o
        /\ iter' = [ems_green |->
                        [tls_id \in {NextTLS(o, v).tls : v \in claims} |->
                            {NextTLS(o, v).link :
                                v \in {w \in claims : NextTLS(o, w).tls = tls_id}}],
                    blocked_tls |-> {NextTLS(o, v).tls : v \in claims},
                    train_near |-> {},
                    train_green |-> << >>,
                    crossing_road_green |-> << >>,
                    touched |-> {}]
        /\ directives' = {d \in ems_modes(o) : d.veh \in claims}
        /\ decision' = << >>
        /\ events' = << >>
        /\ tls_cmds' = << >>
        /\ running' = FALSE
        /\ rejected' = {}
        /\ unqueryable' = {u}
        /\ UNCHANGED <<train_hold_left, preempt_until, held_run, fresh_run>>
        /\ UNCHANGED <<call, soul_vars, script_vars>>

FaultHorizon == MaxFaultTicks * StepLen

FaultTick ==
    /\ running
    /\ t < FaultHorizon
    /\ \E o \in Observations : Step(o, t + StepLen)

RejectedTick ==
    /\ running
    /\ t < FaultHorizon
    /\ \E o \in Observations : RejectedStep(o, t + StepLen)

UnqueryableTick ==
    /\ running
    /\ t < FaultHorizon
    /\ \E o \in Observations : UnqueryableStep(o, t + StepLen)

FaultNext == FaultTick \/ RejectedTick \/ UnqueryableTick

FaultSpec == Init /\ [][FaultNext]_vars

(***************************************************************************)
(* The arbitration of one iteration as a function of its inputs: the       *)
(* snapshot o and the ledger L the iteration starts with.  arbitrate gives *)
(* the decision of every touched intersection.  ArbSpec runs one iteration *)
(* from every ledger the loop can have built (entries for the keys of      *)
(* Keys, values 0..TRAIN_HOLD_MAX) and every snapshot.                     *)
(***************************************************************************)
arbitrate(o, L) ==
    LET eg == ems_green(o)
        near == train_near(o)
        released == released_trains(o, DOMAIN eg, L)
        tg == train_green(o, released)
        crg == crossing_road_green(DOMAIN eg, near)
    IN  [tls_id \in touched(eg, tg, crg) |-> decide(tls_id, eg, tg, crg)]

Ledgers == UNION {[S -> 0..TRAIN_HOLD_MAX] : S \in SUBSET Keys}

ArbInit ==
    /\ t = 0
    /\ obs = [v \in Vehicles |-> Gone]
    /\ train_hold_left \in Ledgers
    /\ preempt_until = << >>
    /\ iter = [ems_green |-> << >>, blocked_tls |-> {}, train_near |-> {},
               train_green |-> << >>, crossing_road_green |-> << >>,
               touched |-> {}]
    /\ decision = << >>
    /\ events = << >>
    /\ tls_cmds = << >>
    /\ directives = {}
    /\ held_run = [k \in Keys |-> 0]
    /\ fresh_run = [k \in Keys |-> 0]
    /\ running = TRUE
    /\ rejected = {}
    /\ unqueryable = {}
    /\ call = NoCall
    /\ SoulStart
    /\ ScriptsStart

ArbTick ==
    /\ running
    /\ t = 0
    /\ \E o \in Observations : Step(o, t + StepLen)

ArbNext == ArbTick

ArbSpec == ArbInit /\ [][ArbNext]_vars

(***************************************************************************)
(* The iteration statement by statement, for given enumeration orders:     *)
(* ids1 and ids2 are the sequences the two calls of getIDList() return,    *)
(* and the touched set is iterated in every possible order.                *)
(***************************************************************************)
\* variant: "m[tls_id] = {link_idx}", the set collected so far is dropped
green_add_overwriting(m, tls_id, link_idx) ==
    [x \in DOMAIN m \cup {tls_id} |-> IF x = tls_id THEN {link_idx} ELSE m[x]]

\* m.setdefault(tls_id, set()).add(link_idx)
green_add(m, tls_id, link_idx) ==
    [x \in DOMAIN m \cup {tls_id} |->
        IF x = tls_id
        THEN (IF x \in DOMAIN m THEN m[x] ELSE {}) \cup {link_idx}
        ELSE m[x]]

\* the loop of lines 161-172 over the sequence ids
RECURSIVE ems_loop(_, _, _)
ems_loop(ids, o, acc) ==
    IF ids = << >> THEN acc
    ELSE LET vid == Head(ids)
         IN  ems_loop(Tail(ids), o,
                IF ems_claim(o, vid)
                THEN [ems_green |->
                        green_add(acc.ems_green, NextTLS(o, vid).tls,
                                  NextTLS(o, vid).link),
                      blocked_tls |-> acc.blocked_tls \cup {NextTLS(o, vid).tls},
                      directives |-> acc.directives \cup
                        {[veh |-> vid, op |-> "setLaneChangeMode", arg |-> 0],
                         [veh |-> vid, op |-> "setSpeedMode", arg |-> 0]}]
                ELSE acc)

\* the body of the loop of lines 177-211 for one train with a crossing ahead
train_body(o, blocked, vid, acc) ==
    LET nx == NextTLS(o, vid)
        key == <<nx.tls, vid>>
        near == IF in_warn_zone(nx.dist)
                THEN acc.train_near \cup {nx.tls} ELSE acc.train_near
        go == [train_near |-> near,
               train_green |-> green_add(acc.train_green, nx.tls, nx.link),
               ledger |-> acc.ledger,
               directives |-> acc.directives \cup
                    {[veh |-> vid, op |-> "setSpeed", arg |-> -10]}]
    IN  IF nx.tls \in blocked /\ in_warn_zone(nx.dist)
        THEN LET left == hold_left(acc.ledger, key)
             IN  IF budget_available(left)
                 THEN [train_near |-> near,
                       train_green |-> acc.train_green,
                       ledger |-> [k \in DOMAIN acc.ledger \cup {key} |->
                                    IF k = key THEN charge(left)
                                    ELSE acc.ledger[k]],
                       directives |-> acc.directives \cup
                            {[veh |-> vid, op |-> "slowDown",
                              arg |-> slow_speed(nx.dist)]}]
                 ELSE go
        ELSE IF in_warn_zone(nx.dist) THEN go
             ELSE [train_near |-> near,
                   train_green |-> acc.train_green,
                   ledger |-> acc.ledger,
                   directives |-> acc.directives]

RECURSIVE train_loop(_, _, _, _)
train_loop(ids, o, blocked, acc) ==
    IF ids = << >> THEN acc
    ELSE train_loop(Tail(ids), o, blocked,
            IF managed_train(o, Head(ids))
            THEN train_body(o, blocked, Head(ids), acc)
            ELSE acc)

\* the loop of lines 228-263 over the sequence order: the state each
\* intersection is left with by the writes sent so far
RECURSIVE apply_loop(_, _, _, _, _)
apply_loop(order, eg, tg, crg, sent) ==
    IF order = << >> THEN sent
    ELSE LET tls_id == Head(order)
             state == decide(tls_id, eg, tg, crg).state
         IN  apply_loop(Tail(order), eg, tg, crg,
                [x \in DOMAIN sent \cup {tls_id} |->
                    IF x = tls_id THEN state ELSE sent[x]])

\* the outcomes of the iteration for the enumeration orders ids1 and ids2
tick_outcomes(o, L, ids1, ids2) ==
    LET a1 == ems_loop(ids1, o,
                [ems_green |-> << >>, blocked_tls |-> {}, directives |-> {}])
        a2 == train_loop(ids2, o, a1.blocked_tls,
                [train_near |-> {}, train_green |-> << >>, ledger |-> L,
                 directives |-> {}])
        crg == crossing_road_green(a1.blocked_tls, a2.train_near)
        tch == touched(a1.ems_green, a2.train_green, crg)
    IN  {[states |-> apply_loop(order, a1.ems_green, a2.train_green, crg, << >>),
          directives |-> a1.directives \cup a2.directives,
          ledger |-> prune(o, a2.ledger)] : order \in Orders(tch)}

(***************************************************************************)
(* The functions of ems_priority.py on their own: each action calls one    *)
(* function on arguments drawn from a bounded set and records the call.    *)
(***************************************************************************)
BuildStateCall ==
    /\ \E n \in 0..MaxLinks :
       \E greens \in SUBSET (0..(n - 1)) :
       \E force_red \in SUBSET (0..(n - 1)) :
            call' = [fn |-> "build_state", n |-> n, greens |-> greens,
                     force_red |-> force_red,
                     result |-> build_state(n, greens, force_red)]
    /\ UNCHANGED <<ems_vars, soul_vars, script_vars>>

\* incoming edges: a road edge, a rail edge, and a road edge that has
\* rail_ in its name but not at the start
Edges == {<<"w2x">>, <<"rail_", "n2x">>, <<"n2x", "rail_">>}

LinkLists == UNION {[1..n -> Edges] : n \in 0..MaxLinks}

AnalyzeCall ==
    /\ \E ctrl \in LinkLists :
            call' = [fn |-> "analyze_tls", ctrl |-> ctrl,
                     result |-> analyze_links(ctrl)]
    /\ UNCHANGED <<ems_vars, soul_vars, script_vars>>

PureNext == BuildStateCall \/ AnalyzeCall

PureSpec == Init /\ [][PureNext]_vars

(***************************************************************************)
(* scripts/soul_train.py, one iteration of its while loop.  A snapshot     *)
(* gives, per vehicle, the distance to the crossing (-1: the vehicle is    *)
(* not in getIDList(), has no next TLS or heads for another one) and, per  *)
(* emergency vehicle, its speed.                                           *)
(***************************************************************************)
SoulTrainDist == [t1 |-> {-1, 24, 25, 80}, t2 |-> {-1, 25}]

SoulEmsObs == {[dist |-> -1, spd |-> 0],
               [dist |-> 120, spd |-> 50],
               [dist |-> 121, spd |-> 0]}

SoulObservations ==
    {[dist |-> [v \in SoulTrains \cup SoulEms |->
                    IF v = "t1" THEN d1 ELSE IF v = "t2" THEN d2 ELSE e.dist],
      spd |-> [v \in SoulEms |-> e.spd]] :
        d1 \in SoulTrainDist["t1"], d2 \in SoulTrainDist["t2"], e \in SoulEmsObs}

\* the trains the loop of lines 99-105 can end with: a strict comparison
\* keeps the first train enumerated among those at the least distance
closest_trains(o) ==
    {v \in SoulTrains :
        /\ o.dist[v] >= 0
        /\ \A w \in SoulTrains : o.dist[w] >= 0 => o.dist[v] <= o.dist[w]}

\* the emergency vehicles that set ems_close (line 116)
close_ems(o) ==
    {v \in SoulEms :
        /\ o.dist[v] >= 0
        /\ \/ o.dist[v] <= SOUL_EMS_DIST
           \/ o.dist[v] <= SOUL_EMS_NEAR /\ o.spd[v] < 10}

soul_ems_modes(o) ==
    {[veh |-> v, op |-> op, arg |-> 0] :
        v \in close_ems(o), op \in {"setLaneChangeMode", "setSpeedMode"}}

\* train_hold_left.get(closest_train_id, TRAIN_HOLD_MAX)
soul_hold_left(L, vid) == IF vid \in DOMAIN L THEN L[vid] ELSE SOUL_TRAIN_HOLD_MAX

\* the hold of lines 133-137: the directive and the charge
soul_hold(o, c, left) ==
    /\ soul_forced' = <<force(TRUE, FALSE, HOLD_ROAD_GREEN)>>
    /\ soul_directives' = soul_ems_modes(o) \cup
            {IF o.dist[c] < 25
             THEN [veh |-> c, op |-> "setSpeed", arg |-> 0]
             ELSE [veh |-> c, op |-> "slowDown", arg |-> 30]}
    /\ soul_train_hold_left' =
            [v \in DOMAIN soul_train_hold_left \cup {c} |->
                IF v = c THEN left - 1 ELSE soul_train_hold_left[v]]

\* variant: at the cap the train is released but the road keeps its green
soul_cap_road_only(o, c) ==
    /\ soul_forced' = <<force(TRUE, FALSE, HOLD_ROAD_GREEN)>>
    /\ soul_directives' = soul_ems_modes(o) \cup
            {[veh |-> c, op |-> "setSpeed", arg |-> -10]}
    /\ UNCHANGED soul_train_hold_left

\* the safety cap of lines 141-142: a second force() in the same iteration
soul_cap(o, c) ==
    /\ soul_forced' = <<force(TRUE, FALSE, HOLD_ROAD_GREEN), force(FALSE, TRUE, 6)>>
    /\ soul_directives' = soul_ems_modes(o) \cup
            {[veh |-> c, op |-> "setSpeed", arg |-> -10]}
    /\ UNCHANGED soul_train_hold_left

\* no EMS, lines 146-149: rail green, the entry of the train deleted
soul_proceed(o, c) ==
    /\ soul_forced' = <<force(FALSE, TRUE, 8)>>
    /\ soul_directives' = soul_ems_modes(o) \cup
            {[veh |-> c, op |-> "setSpeed", arg |-> -10]}
    /\ soul_train_hold_left' =
            [v \in DOMAIN soul_train_hold_left \ {c} |-> soul_train_hold_left[v]]

\* no train nearby, line 153
soul_default(o) ==
    /\ soul_forced' = <<force(TRUE, FALSE, 5)>>
    /\ soul_directives' = soul_ems_modes(o)
    /\ UNCHANGED soul_train_hold_left

\* the count of holds of each train since it came within the warn distance
next_soul_held_total(o, c, held, ht) ==
    [v \in SoulTrains |->
        IF ~(o.dist[v] >= 0 /\ o.dist[v] < SOUL_TRAIN_WARN_DIST) THEN 0
        ELSE IF v = c /\ held THEN Min(ht[v] + 1, SOUL_TRAIN_HOLD_MAX + 1)
        ELSE ht[v]]

SoulStep(o) ==
    \E c \in (IF closest_trains(o) = {} THEN {"none"} ELSE closest_trains(o)) :
        /\ soul_obs' = o
        /\ soul_closest' = c
        /\ soul_ticks' = soul_ticks + 1
        /\ soul_held_total' =
                next_soul_held_total(o, c,
                    /\ c # "none"
                    /\ o.dist[c] < SOUL_TRAIN_WARN_DIST
                    /\ close_ems(o) # {}
                    /\ soul_hold_left(soul_train_hold_left, c) > 0,
                    soul_held_total)
        /\ IF c # "none" /\ o.dist[c] < SOUL_TRAIN_WARN_DIST
           THEN IF close_ems(o) # {}
                THEN IF soul_hold_left(soul_train_hold_left, c) > 0
                     THEN soul_hold(o, c, soul_hold_left(soul_train_hold_left, c))
                     ELSE soul_cap(o, c)
                ELSE soul_proceed(o, c)
           ELSE soul_default(o)

SoulTick ==
    /\ soul_ticks < MaxSoulTicks
    /\ \E o \in SoulObservations : SoulStep(o)
    /\ UNCHANGED <<ems_vars, call, script_vars>>

SoulNext == SoulTick

SoulSpec == Init /\ [][SoulNext]_vars

(***************************************************************************)
(* scripts/preempt_hard.py and scripts/preemption_demo.py: the same loop   *)
(* with different tunables.  Times are in seconds here (one simulation     *)
(* step is 1 s), distances in metres, speeds in tenths of a metre per      *)
(* second.  Every iteration scans the listed vehicles in the order of      *)
(* getIDList(); an emergency vehicle whose next traffic light is not in    *)
(* its re-arm interval and that is close enough forces its link green.     *)
(***************************************************************************)
PreemptScripts == {"preempt_hard", "preemption_demo"}

EMERGENCY_DIST(p) ==
    IF p = "preempt_hard" THEN HARD_EMERGENCY_DIST ELSE DEMO_EMERGENCY_DIST

REARM_SEC(p) == IF p = "preempt_hard" THEN HARD_REARM_SEC ELSE DEMO_REARM_SEC

\* the literal of the stop-line test: 12 m in preempt_hard, 15 m in the demo
stop_line_dist(p) == IF p = "preempt_hard" THEN 12 ELSE 15

\* eta(dist, speed) in tenths of a second, rounded down; speed in tenths of
\* a metre per second
eta(dist, speed) == (dist * 100) \div Max(speed, SPEED_FLOOR)

\* line 54: close and arriving soon, or stuck at the stop line (0.5 m/s)
trigger(p, dist_m, spd) ==
    \/ dist_m < EMERGENCY_DIST(p) /\ eta(dist_m, spd) < ETA_MAX_SEC * 10
    \/ dist_m < stop_line_dist(p) /\ spd < 5

\* a debounce that re-arms one second early
in_rearm_one_short(p, lpa, tls_id, now) ==
    tls_id \in DOMAIN lpa /\ (now - lpa[tls_id]) < REARM_SEC(p) - 1

\* line 50: the debounce test
in_rearm(p, lpa, tls_id, now) ==
    tls_id \in DOMAIN lpa /\ (now - lpa[tls_id]) < REARM_SEC(p)

\* force_only_link_green: all red except the target link
only_link_green(n, link_index) ==
    [i \in 1..n |-> IF i - 1 = link_index THEN "G" ELSE "r"]

force_only_link_green(tls_id, link_index, hold_s, now, vid) ==
    [tls |-> tls_id, link |-> link_index, vid |-> vid, t |-> now,
     state |-> only_link_green(Len(ControlledLinks[tls_id]), link_index),
     duration |-> Max(1, hold_s)]

\* 100 m at 10 m/s triggers both scripts; 150 m at 13 m/s and 13 m at rest
\* trigger the demo only; 100 m at 5 m/s triggers neither
PreObs1 == {PNoTLS, PAt("X", 0, 100, 100), PAt("X", 0, 150, 130),
            PAt("X", 0, 13, 0), PAt("X", 0, 100, 50)}

PreObs2 == {PGone, PAt("X", 1, 100, 100), PAt("Y", 0, 100, 100)}

PreObsTrain == {PGone, PAt("X", 2, 100, 100)}

PreObservations ==
    {o \in [Vehicles -> PreObs1 \cup PreObs2 \cup PreObsTrain] :
        /\ o["e1"] \in PreObs1
        /\ o["e2"] \in PreObs2
        /\ o["tr"] \in PreObsTrain}

\* lines 37-58 from the i-th listed vehicle on: the dict last_preempt_at and
\* the commands sent, after the rest of the scan
RECURSIVE pre_scan(_, _, _, _, _, _, _)
pre_scan(p, o, order, i, now, lpa, cmds) ==
    IF i > Len(order) THEN [last_preempt_at |-> lpa, cmds |-> cmds]
    ELSE LET vid == order[i]
             nxt == o[vid].nxt
         IN  IF getTypeID(vid) # "emergency" \/ nxt = << >>
             THEN pre_scan(p, o, order, i + 1, now, lpa, cmds)
             ELSE IF in_rearm(p, lpa, nxt[1].tls, now)
             THEN pre_scan(p, o, order, i + 1, now, lpa, cmds)
             ELSE IF trigger(p, nxt[1].dist, o[vid].spd)
             THEN pre_scan(p, o, order, i + 1, now,
                    [k \in DOMAIN lpa \cup {nxt[1].tls} |->
                        IF k = nxt[1].tls THEN now ELSE lpa[k]],
                    Append(cmds, force_only_link_green(nxt[1].tls,
                                    nxt[1].link, HOLD_GREEN_SEC, now, vid)))
             ELSE pre_scan(p, o, order, i + 1, now, lpa, cmds)

\* the intersections an emergency vehicle is heading to in the snapshot:
\* those for which the scan reaches the debounce test of line 50
requested(o) ==
    {o[v].nxt[1].tls : v \in {u \in Vehicles :
        o[u].present /\ getTypeID(u) = "emergency" /\ o[u].nxt # << >>}}

PreStep(o, order, now) ==
    \E r \in {pre_scan(pre_prog, o, order, 1, now, pre_last_preempt_at, << >>)} :
        /\ pre_t' = now
        /\ pre_requests' = requested(o)
        /\ pre_last_preempt_at' = r.last_preempt_at
        /\ pre_cmds' = r.cmds
        /\ pre_history' = pre_history \o r.cmds
        /\ UNCHANGED pre_prog

\* the script is started: main() of one of the two files
PreStart ==
    /\ pre_prog = "none"
    /\ pre_prog' \in PreemptScripts
    /\ UNCHANGED <<pre_t, pre_requests, pre_last_preempt_at, pre_cmds, pre_history>>
    /\ UNCHANGED <<ems_vars, call, soul_vars, net_vars, exp_vars>>

PreTick ==
    /\ pre_prog # "none"
    /\ pre_t < MaxPreTicks
    /\ \E o \in PreObservations :
       \E order \in Orders({v \in Vehicles : o[v].present}) :
            PreStep(o, order, pre_t + 1)
    /\ UNCHANGED <<ems_vars, call, soul_vars, net_vars, exp_vars>>

PreNext == PreStart \/ PreTick

PreSpec == Init /\ [][PreNext]_vars

(***************************************************************************)
(* scripts/preempt_network.py, one iteration of its while loop: the        *)
(* requests of the emergency vehicles are collected per intersection,      *)
(* every requested intersection is preempted (its plan saved on entry),    *)
(* and every other intersection is restored once the cooldown has passed.  *)
(* Times in seconds, one step is 1 s; speeds in tenths of a metre per      *)
(* second.  The commands of an iteration are kept as a set: those of       *)
(* different intersections do not interact.                                *)
(***************************************************************************)
net_eta(d, v) == (d * 100) \div (IF v > NET_SPEED_FLOOR THEN v ELSE NET_SPEED_FLOOR)

\* line 100: close and soon, or already at the stop line
net_trigger(dist_m, spd) ==
    \/ dist_m < NET_EMERGENCY_DIST /\ net_eta(dist_m, spd) < NET_ETA_MAX_SEC * 10
    \/ dist_m < NEAR_STOP_M

\* the emergency vehicles of the snapshot that have a next traffic light
net_approaching(o) ==
    {v \in Vehicles : o[v].present /\ getTypeID(v) = "emergency" /\ o[v].nxt # << >>}

\* lines 80-101: requests, tlsID -> set of link indices
net_collect(o) ==
    LET asking == {v \in net_approaching(o) : net_trigger(o[v].nxt[1].dist, o[v].spd)}
    IN  [tls \in {o[v].nxt[1].tls : v \in asking} |->
            {o[v].nxt[1].link : v \in {u \in asking : o[u].nxt[1].tls = tls}}]

\* lines 95-97: the vehicles made assertive
net_assertive(o) ==
    {v \in net_approaching(o) : AGGRESSIVE_EMS /\ o[v].nxt[1].dist < NET_EMERGENCY_DIST}

\* what lines 30-36 store in begin_preempt_if_needed: the program and the
\* phase read, or None for both when one of the reads raises.  A stored
\* value is a one-element sequence, None the empty sequence.
None == << >>

PlanReads == {[prog |-> <<"0">>, phase |-> <<0>>],
              [prog |-> <<"0">>, phase |-> <<1>>],
              [prog |-> None, phase |-> None]}

\* a begin_preempt_if_needed without the test of line 28
begin_preempt_always(tls_id, read, st) ==
    [saved_prog  |-> [k \in DOMAIN st.saved_prog \cup {tls_id} |->
                        IF k = tls_id THEN read.prog ELSE st.saved_prog[k]],
     saved_phase |-> [k \in DOMAIN st.saved_phase \cup {tls_id} |->
                        IF k = tls_id THEN read.phase ELSE st.saved_phase[k]],
     preempting  |-> st.preempting \cup {tls_id}]

\* begin_preempt_if_needed on the state st = (saved_prog, saved_phase,
\* preempting)
begin_preempt_if_needed(tls_id, read, st) ==
    IF tls_id \in st.preempting THEN st
    ELSE [saved_prog  |-> [k \in DOMAIN st.saved_prog \cup {tls_id} |->
                            IF k = tls_id THEN read.prog ELSE st.saved_prog[k]],
          saved_phase |-> [k \in DOMAIN st.saved_phase \cup {tls_id} |->
                            IF k = tls_id THEN read.phase ELSE st.saved_phase[k]],
          preempting  |-> st.preempting \cup {tls_id}]

\* force_links_green: the state vector and the duration sent
force_links_green(tls_id, link_indices, hold_s) ==
    [op |-> "force", tls |-> tls_id,
     state |-> [i \in 1..Len(ControlledLinks[tls_id]) |->
                    IF (i - 1) \in link_indices THEN "G" ELSE "r"],
     duration |-> Max(1, hold_s)]

\* lines 104-107 over all requested intersections
RECURSIVE net_apply(_, _, _, _)
net_apply(todo, req, reads, st) ==
    IF todo = {} THEN st
    ELSE LET tls_id == CHOOSE x \in todo : TRUE
         IN  net_apply(todo \ {tls_id}, req, reads,
                       begin_preempt_if_needed(tls_id, reads[tls_id], st))

\* lines 113-116: no request in this iteration and the cooldown has passed
\* (an intersection never requested has last = -1e9)
restore_due(tls_id, req, last_request_t, now) ==
    /\ tls_id \notin DOMAIN req
    /\ \/ tls_id \notin DOMAIN last_request_t
       \/ (now - last_request_t[tls_id]) >= RESTORE_COOLDOWN_S

\* restore_normal_if_idle: the calls that take effect.  setPhaseDuration(1)
\* of line 61 lacks the traffic light argument, raises, and the exception is
\* swallowed by line 62.
restore_cmds(tls_id, prog, ph) ==
    (IF prog # None
     THEN {[op |-> "setProgram", tls |-> tls_id, prog |-> prog[1]]}
     ELSE {})
    \cup
    (IF ph # None
     THEN {[op |-> "setPhase", tls |-> tls_id, phase |-> ph[1]]}
     ELSE {})

NetObs1 == {PNoTLS, PAt("X", 0, 100, 100), PAt("X", 0, 100, 50)}

NetObs2 == {PGone, PAt("X", 1, 100, 100), PAt("Y", 0, 14, 0)}

NetObsTrain == {PGone, PAt("X", 2, 100, 100)}

NetObservations ==
    {o \in [Vehicles -> NetObs1 \cup NetObs2 \cup NetObsTrain] :
        /\ o["e1"] \in NetObs1
        /\ o["e2"] \in NetObs2
        /\ o["tr"] \in NetObsTrain}

NetStep(o, reads, now) ==
    \E req \in {net_collect(o)} :
    \E st \in {net_apply(DOMAIN req, req, reads,
                    [saved_prog |-> net_saved_prog,
                     saved_phase |-> net_saved_phase,
                     preempting |-> net_preempting])} :
    \E restored \in {{tls \in st.preempting :
                        restore_due(tls, req, net_last_request_t, now)}} :
        /\ net_t' = now
        /\ net_requests' = req
        /\ net_saved_prog' = st.saved_prog
        /\ net_saved_phase' = st.saved_phase
        /\ net_last_request_t' =
                [k \in DOMAIN net_last_request_t \cup DOMAIN req |->
                    IF k \in DOMAIN req THEN now ELSE net_last_request_t[k]]
        /\ net_preempting' = st.preempting \ restored
        /\ net_cmds' =
                {[op |-> "assertive", vid |-> v] : v \in net_assertive(o)}
                \cup {force_links_green(tls, req[tls], NET_HOLD_GREEN_S) :
                        tls \in DOMAIN req}
                \cup UNION {restore_cmds(tls, st.saved_prog[tls],
                                         st.saved_phase[tls]) : tls \in restored}
        /\ net_asked_at' =
                [k \in TLS |-> IF k \in DOMAIN req THEN now ELSE net_asked_at[k]]

NetTick ==
    /\ net_t < MaxNetTicks
    /\ \E o \in NetObservations :
       \E reads \in [DOMAIN net_collect(o) -> PlanReads] :
            NetStep(o, reads, net_t + 1)
    /\ UNCHANGED <<ems_vars, call, soul_vars, pre_vars, exp_vars>>

NetNext == NetTick

NetSpec == Init /\ [][NetNext]_vars

(***************************************************************************)
(* scripts/run_experiment.py, run(): one iteration of its while loop, and  *)
(* the end of the run.  active maps (intersection, emergency vehicle) to   *)
(* the tracking record, results is the list of closed records.  Times in   *)
(* seconds, one step is 1 s; speeds in tenths of a metre per second.       *)
(***************************************************************************)
\* active without the keys in ks
drop_keys(active, ks) == [k \in DOMAIN active \ ks |-> active[k]]

\* the keys ks of one vehicle in the order of list(active.items()), the
\* insertion order: a vehicle opens at most one record per iteration, so
\* this is the order of start_t
RECURSIVE items_of(_, _)
items_of(active, ks) ==
    IF ks = {} THEN << >>
    ELSE LET k == CHOOSE x \in ks :
                    \A y \in ks : active[x].start_t <= active[y].start_t
         IN  <<k>> \o items_of(active, ks \ {k})

\* lines 113-115: the record closed at time now
closed(st, now) ==
    [ems_id |-> st.ems_id, tls_id |-> st.tls_id, start_t |-> st.start_t,
     stopped_last_step |-> st.stopped_last_step, stops |-> st.stops,
     stop_time_accum |-> st.stop_time_accum, last_t |-> st.last_t,
     last_tls |-> st.last_tls, clear_time_sec |-> <<now - st.start_t>>]

\* lines 50-55: every open record of the vehicle is closed
RECURSIVE close_all(_, _, _, _)
close_all(ks, i, now, ar) ==
    IF i > Len(ks) THEN ar
    ELSE close_all(ks, i + 1, now,
            [active |-> drop_keys(ar.active, {ks[i]}),
             results |-> Append(ar.results, closed(ar.active[ks[i]], now))])

\* lines 66-75: a new tracking record
opened(vid, tls_id, now) ==
    [ems_id |-> vid, tls_id |-> tls_id, start_t |-> now,
     stopped_last_step |-> FALSE, stops |-> 0, stop_time_accum |-> 0,
     last_t |-> now, last_tls |-> tls_id, clear_time_sec |-> None]

\* lines 82-90: stop time and stops near the stop line
counted(st, dist_m, spd, now) ==
    IF dist_m <= EXP_NEAR_STOP_M /\ spd < SPEED_STOP
    THEN [st EXCEPT !.last_t = now,
                    !.stop_time_accum = st.stop_time_accum + (now - st.last_t),
                    !.stops = IF st.stopped_last_step THEN st.stops
                              ELSE st.stops + 1,
                    !.stopped_last_step = TRUE]
    ELSE [st EXCEPT !.last_t = now, !.stopped_last_step = FALSE]

\* lines 100-111: the clearance test on the second read nxt2 of the next
\* traffic light
cleared(st, dist_m, nxt2) ==
    IF nxt2 = << >> THEN TRUE
    ELSE \/ nxt2[1].tls # st.last_tls
         \/ dist_m <= 2 /\ nxt2[1].dist > dist_m + 2

\* lines 43-116 from the i-th listed vehicle on.  The second getNextTLS of
\* line 100 is made in the same simulation step as the first of line 47 and
\* returns the same list.
RECURSIVE exp_scan(_, _, _, _, _, _)
exp_scan(o, order, i, now, preempt_on, acc) ==
    IF i > Len(order) THEN acc
    ELSE LET vid == order[i]
             nxt == o[vid].nxt
             nxt2 == o[vid].nxt
             rest(a) == exp_scan(o, order, i + 1, now, preempt_on, a)
         IN  IF getTypeID(vid) # "emergency" THEN rest(acc)
             ELSE IF nxt = << >>
             THEN LET ks == items_of(acc.active,
                                {k \in DOMAIN acc.active : k[2] = vid})
                      ar == close_all(ks, 1, now,
                                [active |-> acc.active, results |-> acc.results])
                  IN  rest([acc EXCEPT !.active = ar.active,
                                       !.results = ar.results])
             ELSE LET tls_id == nxt[1].tls
                      dist_m == nxt[1].dist
                      key == <<tls_id, vid>>
                      known == key \in DOMAIN acc.active
                  IN  IF ~known /\ ~(dist_m <= APPROACH_M) THEN rest(acc)
                      ELSE LET st0 == IF known THEN acc.active[key]
                                      ELSE opened(vid, tls_id, now)
                               st == counted(st0, dist_m, o[vid].spd, now)
                               req == IF preempt_on /\ dist_m <= APPROACH_M
                                      THEN {<<tls_id, nxt[1].link>>} ELSE {}
                           IN  IF cleared(st, dist_m, nxt2)
                               THEN rest([active |-> drop_keys(acc.active, {key}),
                                          results |-> Append(acc.results,
                                                             closed(st, now)),
                                          requests |-> acc.requests \cup req])
                               ELSE rest([active |->
                                            [k \in DOMAIN acc.active \cup {key} |->
                                                IF k = key THEN st
                                                ELSE acc.active[k]],
                                          results |-> acc.results,
                                          requests |-> acc.requests \cup req])

\* set_only_links_green for the requested links of one intersection
set_only_links_green(tls_id, link_indices) ==
    [tls |-> tls_id,
     state |-> [i \in 1..Len(ControlledLinks[tls_id]) |->
                    IF (i - 1) \in link_indices THEN "G" ELSE "r"],
     duration |-> EXP_HOLD_GREEN_S]

\* 120 m is inside the approach window, 121 m outside; 10 m at rest is a stop
ExpObs1 == {PGone, PNoTLS, PAt("X", 0, 120, 100), PAt("X", 0, 10, 0),
            PAt("Y", 0, 100, 100)}

ExpObs2 == {PGone, PAt("X", 1, 121, 100)}

ExpObsTrain == {PGone, PAt("X", 2, 100, 100)}

ExpObservations ==
    {o \in [Vehicles -> ExpObs1 \cup ExpObs2 \cup ExpObsTrain] :
        /\ o["e1"] \in ExpObs1
        /\ o["e2"] \in ExpObs2
        /\ o["tr"] \in ExpObsTrain}

ExpStep(o, order, now) ==
    \E acc \in {exp_scan(o, order, 1, now, exp_mode = "on",
                    [active |-> exp_active, results |-> exp_results,
                     requests |-> {}])} :
        /\ exp_t' = now
        /\ exp_obs' = o
        /\ exp_active' = acc.active
        /\ exp_results' = acc.results
        /\ exp_cmds' =
                IF exp_mode = "on"
                THEN {set_only_links_green(tls, {r[2] : r \in {q \in acc.requests : q[1] = tls}}) :
                        tls \in {r[1] : r \in acc.requests}}
                ELSE {}
        /\ UNCHANGED <<exp_mode, exp_csv>>

\* run(cfg, preempt_on, out_csv) is called in one of the two modes
ExpStart ==
    /\ exp_mode = "none"
    /\ exp_mode' \in {"on", "off"}
    /\ UNCHANGED <<exp_t, exp_obs, exp_active, exp_results, exp_cmds, exp_csv>>
    /\ UNCHANGED <<ems_vars, call, soul_vars, pre_vars, net_vars>>

ExpTick ==
    /\ exp_mode \in {"on", "off"}
    /\ exp_t < MaxExpTicks
    /\ \E o \in ExpObservations :
       \E order \in Orders({v \in Vehicles : o[v].present}) :
            ExpStep(o, order, exp_t + 1)
    /\ UNCHANGED <<ems_vars, call, soul_vars, pre_vars, net_vars>>

\* lines 126-139: one CSV row per closed record
csv_rows(results) ==
    [i \in DOMAIN results |->
        [tls_id |-> results[i].tls_id, ems_id |-> results[i].ems_id,
         stops |-> results[i].stops,
         stop_time_sec |-> results[i].stop_time_accum,
         clear_time_sec |-> IF results[i].clear_time_sec = None THEN 0
                            ELSE results[i].clear_time_sec[1]]]

\* getMinExpectedNumber() is 0, which needs a network without vehicles: the
\* loop is left and the CSV file is written from results
ExpEnd ==
    /\ exp_mode \in {"on", "off"}
    /\ exp_t > 0
    /\ \A v \in Vehicles : ~exp_obs[v].present
    /\ exp_mode' = "done"
    /\ exp_csv' = csv_rows(exp_results)
    /\ UNCHANGED <<exp_t, exp_obs, exp_active, exp_results, exp_cmds>>
    /\ UNCHANGED <<ems_vars, call, soul_vars, pre_vars, net_vars>>

ExpNext == ExpStart \/ ExpTick \/ ExpEnd

ExpSpec == Init /\ [][ExpNext]_vars

(***************************************************************************)
(* Vocabulary of the properties, read off the snapshot and the commands    *)
(* of the last iteration.                                                  *)
(***************************************************************************)
Ticked == t > 0

\* the state vectors sent to tls_id by setRedYellowGreenState in this tick
IssuedStates(tls_id) ==
    {tls_cmds[i].state : i \in {j \in 1..Len(tls_cmds) : tls_cmds[j].tls_id = tls_id}}

GreenIn(s) == {i - 1 : i \in {j \in 1..Len(s) : s[j] = "G"}}

Crossings == {tls_id \in TLS : tls_meta[tls_id].is_crossing}

\* v is an emergency vehicle within EMS_DIST of tls_id in this tick
EmsWithin(v, tls_id) ==
    /\ is_ems(v)
    /\ obs[v].present
    /\ obs[v].nxt # << >>
    /\ obs[v].nxt[1].tls = tls_id
    /\ obs[v].nxt[1].dist <= EMS_DIST

EmsClaimAt(tls_id) == \E v \in Vehicles : EmsWithin(v, tls_id)

\* the train of k is within TRAIN_WARN_DIST of the crossing of k in this tick
TrainNearAt(k) ==
    /\ obs[k[2]].present
    /\ obs[k[2]].nxt # << >>
    /\ obs[k[2]].nxt[1].tls = k[1]
    /\ obs[k[2]].nxt[1].dist < TRAIN_WARN_DIST

TrainLink(k) == obs[k[2]].nxt[1].link

TrainLinkGreen(k) ==
    /\ IssuedStates(k[1]) # {}
    /\ \A s \in IssuedStates(k[1]) : TrainLink(k) \in GreenIn(s)

SlowedNow(k) ==
    /\ TrainNearAt(k)
    /\ \E d \in directives : d.veh = k[2] /\ d.op = "slowDown"

ReleasedNow(k) ==
    /\ TrainNearAt(k)
    /\ [veh |-> k[2], op |-> "setSpeed", arg |-> -10] \in directives

(***************************************************************************)
(* C1  Exclusivity: in every tick, no state vector issued for a crossing   *)
(* has a road-group link green and a rail-group link green together.       *)
(***************************************************************************)
C1_Exclusivity ==
    \A tls_id \in Crossings : \A s \in IssuedStates(tls_id) :
        ~(/\ GreenIn(s) \cap tls_meta[tls_id].road_idxs # {}
          /\ GreenIn(s) \cap tls_meta[tls_id].rail_idxs # {})

\* a crossing commanded with a rail link green, and one commanded with the
\* road group green, both occur
C1_Witness ==
    \E tls_id \in Crossings : \E s \in IssuedStates(tls_id) :
        /\ GreenIn(s) \cap tls_meta[tls_id].rail_idxs # {}
        /\ GreenIn(s) \cap tls_meta[tls_id].road_idxs = {}
        /\ tls_id \in iter.train_near

(***************************************************************************)
(* C2  EMS priority: for every emergency vehicle within EMS_DIST of its    *)
(* next intersection, a state is issued for that intersection in the same  *)
(* tick, the vehicle's link is green in it and no rail-group link is.      *)
(***************************************************************************)
C2_EmsPriority ==
    \A v \in Vehicles : \A tls_id \in TLS :
        EmsWithin(v, tls_id) =>
            /\ IssuedStates(tls_id) # {}
            /\ \A s \in IssuedStates(tls_id) :
                  /\ obs[v].nxt[1].link \in GreenIn(s)
                  /\ GreenIn(s) \cap tls_meta[tls_id].rail_idxs = {}

\* two emergency vehicles claim the same crossing on different links, one of
\* them exactly at EMS_DIST, while a train is in its warn zone
C2_Witness ==
    /\ EmsWithin("e1", "X")
    /\ EmsWithin("e2", "X")
    /\ obs["e1"].nxt[1].link # obs["e2"].nxt[1].link
    /\ obs["e1"].nxt[1].dist = EMS_DIST
    /\ TrainNearAt(<<"X", "tr">>)
    /\ \E s \in IssuedStates("X") : Cardinality(GreenIn(s)) = 2

(***************************************************************************)
(* C3  Bounded holds: for every (intersection, train) pair the number of   *)
(* consecutive ticks with a slowDown directive never exceeds               *)
(* TRAIN_HOLD_MAX.                                                         *)
(***************************************************************************)
C3_BoundedHolds ==
    \A k \in Keys :
        /\ held_run[k] <= TRAIN_HOLD_MAX
        /\ (held_run[k] > 0 <=> SlowedNow(k))

\* a train held for TRAIN_HOLD_MAX ticks in a row
C3_Witness == \E k \in Keys : held_run[k] = TRAIN_HOLD_MAX /\ SlowedNow(k)

(***************************************************************************)
(* C4  (as claimed) A train that stays within TRAIN_WARN_DIST of a         *)
(* crossing eventually has its link green in the state issued for the      *)
(* crossing, even with an EMS claim there on every tick.                   *)
(***************************************************************************)
C4_EventuallyGreen ==
    \A k \in Keys : TrainNearAt(k) ~> (~TrainNearAt(k) \/ TrainLinkGreen(k))

(***************************************************************************)
(* C4  (amended) A train that stays within TRAIN_WARN_DIST of a crossing   *)
(* is eventually released to free running, even with an EMS claim there    *)
(* on every tick; its link is green in every tick in which the crossing    *)
(* has no EMS claim and in no tick in which it has one.                    *)
(***************************************************************************)
C4_EventuallyReleased ==
    /\ \A k \in Keys : TrainNearAt(k) ~> (~TrainNearAt(k) \/ ReleasedNow(k))
    /\ [](\A k \in Keys :
            TrainNearAt(k) => (TrainLinkGreen(k) <=> ~EmsClaimAt(k[1])))

\* the train is released in a tick in which the crossing is EMS-claimed
C4_Witness ==
    \E k \in Keys : ReleasedNow(k) /\ EmsClaimAt(k[1]) /\ ~TrainLinkGreen(k)

(***************************************************************************)
(* C5  (as claimed) Hold-then-release schedule: while a train stays in     *)
(* the warn zone of a crossing that is EMS-blocked on every tick, starting *)
(* without a ledger entry, tick j (1 <= j <= TRAIN_HOLD_MAX) leaves the    *)
(* budget at TRAIN_HOLD_MAX - j and issues a slowdown and no release;      *)
(* tick TRAIN_HOLD_MAX + 1 releases the train and its link is green.       *)
(***************************************************************************)
C5_ScheduleEndsGreen ==
    \A k \in Keys :
        /\ fresh_run[k] \in 1..TRAIN_HOLD_MAX =>
              /\ k \in DOMAIN train_hold_left
              /\ train_hold_left[k] = TRAIN_HOLD_MAX - fresh_run[k]
              /\ SlowedNow(k)
              /\ ~ReleasedNow(k)
        /\ fresh_run[k] = TRAIN_HOLD_MAX + 1 =>
              /\ ReleasedNow(k)
              /\ TrainLinkGreen(k)

(***************************************************************************)
(* C5  (amended) As above for ticks 1..TRAIN_HOLD_MAX; tick                *)
(* TRAIN_HOLD_MAX + 1 issues the release and no slowdown and puts the      *)
(* train's link in the train-green set of the crossing, but the state      *)
(* issued for the crossing keeps the link red, since the crossing is       *)
(* EMS-claimed.                                                            *)
(***************************************************************************)
C5_HoldSchedule ==
    \A k \in Keys :
        /\ fresh_run[k] \in 1..TRAIN_HOLD_MAX =>
              /\ k \in DOMAIN train_hold_left
              /\ train_hold_left[k] = TRAIN_HOLD_MAX - fresh_run[k]
              /\ SlowedNow(k)
              /\ ~ReleasedNow(k)
              /\ k[1] \notin DOMAIN iter.train_green
        /\ fresh_run[k] = TRAIN_HOLD_MAX + 1 =>
              /\ ReleasedNow(k)
              /\ ~SlowedNow(k)
              /\ k[1] \in DOMAIN iter.train_green
              /\ TrainLink(k) \in iter.train_green[k[1]]
              /\ EmsClaimAt(k[1])
              /\ ~TrainLinkGreen(k)

\* tick TRAIN_HOLD_MAX + 1 of such a run
C5_Witness == \E k \in Keys : fresh_run[k] = TRAIN_HOLD_MAX + 1 /\ t = 130

(***************************************************************************)
(* C6  EMS strictly wins: an intersection with both an EMS claim and a     *)
(* train-green request in a tick is tagged ems_preempt, its issued green   *)
(* set is exactly the EMS links, and the released train's link is not      *)
(* green.                                                                  *)
(***************************************************************************)
C6_EmsWins ==
    \A tls_id \in TLS :
        (EmsClaimAt(tls_id) /\ tls_id \in DOMAIN iter.train_green) =>
            /\ tls_id \in DOMAIN decision
            /\ decision[tls_id].event_type = "ems_preempt"
            /\ IssuedStates(tls_id) # {}
            /\ \A s \in IssuedStates(tls_id) :
                  /\ GreenIn(s) = {obs[v].nxt[1].link :
                                      v \in {w \in Vehicles : EmsWithin(w, tls_id)}}
                  /\ GreenIn(s) \cap iter.train_green[tls_id] = {}

\* a released train and an EMS claim meet at a crossing
C6_Witness ==
    \E k \in Keys :
        /\ EmsClaimAt(k[1])
        /\ k[1] \in DOMAIN iter.train_green
        /\ TrainLink(k) \in iter.train_green[k[1]]
        /\ ReleasedNow(k)

(***************************************************************************)
(* C7  Anti-starvation: in every tick in which a crossing has no EMS       *)
(* claim and no train within TRAIN_WARN_DIST, exactly one decision is      *)
(* issued for it, tagged road_keep_green, whose green set is the road      *)
(* group and holds no rail link.                                           *)
(***************************************************************************)
C7_AntiStarvation ==
    \A tls_id \in Crossings :
        (/\ Ticked
         /\ ~EmsClaimAt(tls_id)
         /\ ~\E k \in Keys : k[1] = tls_id /\ TrainNearAt(k)) =>
            /\ tls_id \in DOMAIN decision
            /\ decision[tls_id].event_type = "road_keep_green"
            /\ decision[tls_id].greens = tls_meta[tls_id].road_idxs
            /\ Cardinality({i \in 1..Len(tls_cmds) : tls_cmds[i].tls_id = tls_id}) = 1
            /\ \A s \in IssuedStates(tls_id) :
                  /\ GreenIn(s) = tls_meta[tls_id].road_idxs
                  /\ GreenIn(s) \cap tls_meta[tls_id].rail_idxs = {}

\* a later tick of a quiet crossing, with a train just outside the warn zone
C7_Witness ==
    /\ t >= 5 * StepLen
    /\ ~EmsClaimAt("X")
    /\ obs["tr"].nxt # << >>
    /\ obs["tr"].nxt[1].tls = "X"
    /\ obs["tr"].nxt[1].dist = TRAIN_WARN_DIST
    /\ decision["X"].event_type = "road_keep_green"

C9_NoReHold ==
    [][\A k \in Keys :
          (k \in DOMAIN train_hold_left /\ train_hold_left[k] = 0) =>
              /\ ~SlowedNow(k)'
              /\ (k \in DOMAIN train_hold_left' => train_hold_left'[k] = 0)
              /\ (k \notin DOMAIN train_hold_left' => ~TrainNearAt(k)')]_vars

\* two ticks past the exhaustion of the budget, still blocked, still no hold
C9_Witness ==
    \E k \in Keys :
        /\ fresh_run[k] = TRAIN_HOLD_MAX + 2
        /\ train_hold_left[k] = 0
        /\ EmsClaimAt(k[1])
        /\ ~SlowedNow(k)

(***************************************************************************)
(* C10  Ledger range: every entry of train_hold_left is an integer between *)
(* 0 and TRAIN_HOLD_MAX.                                                   *)
(***************************************************************************)
C10_LedgerRange ==
    \A k \in DOMAIN train_hold_left :
        /\ k \in Keys
        /\ train_hold_left[k] \in 0..TRAIN_HOLD_MAX

\* an entry that has been charged down to zero
C10_Witness ==
    \E k \in DOMAIN train_hold_left : train_hold_left[k] = 0 /\ SlowedNow(k)

(***************************************************************************)
(* C11  Prune: at the end of every tick the ledger holds no entry (X, T)   *)
(* for a train T that has vanished or that does not report X as its next   *)
(* intersection (a train that reports another intersection included).      *)
(***************************************************************************)
C11_Prune ==
    \A k \in DOMAIN train_hold_left :
        /\ obs[k[2]].present
        /\ obs[k[2]].nxt # << >>
        /\ obs[k[2]].nxt[1].tls = k[1]

(***************************************************************************)
(* C12  EMS decision shape: for every intersection with an EMS claim in    *)
(* the tick, the decision has greens = exactly the links claimed by the    *)
(* emergency vehicles there, force_red = the whole rail group of the       *)
(* intersection, event_type ems_preempt and source ems; the one state      *)
(* vector commanded has exactly the claimed links green.                   *)
(***************************************************************************)
EmsLinksAt(tls_id) ==
    {obs[v].nxt[1].link : v \in {w \in Vehicles : EmsWithin(w, tls_id)}}

C12_EmsDecisionShape ==
    \A tls_id \in TLS :
        EmsClaimAt(tls_id) =>
            /\ tls_id \in DOMAIN decision
            /\ decision[tls_id].greens = EmsLinksAt(tls_id)
            /\ decision[tls_id].force_red = tls_meta[tls_id].rail_idxs
            /\ decision[tls_id].event_type = "ems_preempt"
            /\ decision[tls_id].source = "ems"
            /\ IssuedStates(tls_id) # {}
            /\ \A s \in IssuedStates(tls_id) : GreenIn(s) = EmsLinksAt(tls_id)
            /\ \E i \in 1..Len(events) :
                    /\ events[i].tls_id = tls_id
                    /\ events[i].event_type = "ems_preempt"
                    /\ events[i].source = "ems"

\* two emergency vehicles claim two links of the crossing while a train is
\* in its warn zone: only the two claimed links are green
C12_Witness ==
    /\ EmsWithin("e1", "X")
    /\ EmsWithin("e2", "X")
    /\ \E k \in Keys : TrainNearAt(k) /\ k[1] = "X"
    /\ decision["X"].greens = {0, 1}
    /\ decision["X"].force_red = {2, 3}

(***************************************************************************)
(* C13  Train without EMS: in every tick in which a train is within        *)
(* TRAIN_WARN_DIST of a crossing that no emergency vehicle claims, the     *)
(* train is released to free running and not slowed, the decision of the   *)
(* crossing is train_request with greens = exactly the links of the trains *)
(* within warn distance there and force_red empty, every road link is red  *)
(* in the commanded vector, and the ledger entry of the train is left as   *)
(* it was at the start of the tick.                                        *)
(***************************************************************************)
TrainLinksAt(tls_id) ==
    {TrainLink(k) : k \in {j \in Keys : j[1] = tls_id /\ TrainNearAt(j)}}

C13_TrainWithoutEms ==
    [][\A k \in Keys :
          (TrainNearAt(k)' /\ ~EmsClaimAt(k[1])') =>
              /\ ReleasedNow(k)'
              /\ ~SlowedNow(k)'
              /\ k[1] \in DOMAIN decision'
              /\ decision'[k[1]].event_type = "train_request"
              /\ decision'[k[1]].source = "train"
              /\ decision'[k[1]].greens = TrainLinksAt(k[1])'
              /\ decision'[k[1]].force_red = {}
              /\ IssuedStates(k[1])' # {}
              /\ \A s \in IssuedStates(k[1])' :
                    /\ GreenIn(s) = TrainLinksAt(k[1])'
                    /\ GreenIn(s) \cap tls_meta[k[1]].road_idxs = {}
              /\ (k \in DOMAIN train_hold_left') = (k \in DOMAIN train_hold_left)
              /\ (k \in DOMAIN train_hold_left =>
                    train_hold_left'[k] = train_hold_left[k])]_vars

\* the train was held once, the emergency vehicle has left, the train is
\* released and its entry is still at TRAIN_HOLD_MAX - 1
C13_Witness ==
    \E k \in Keys :
        /\ TrainNearAt(k)
        /\ ~EmsClaimAt(k[1])
        /\ ReleasedNow(k)
        /\ k \in DOMAIN train_hold_left
        /\ train_hold_left[k] = TRAIN_HOLD_MAX - 1
        /\ decision[k[1]].event_type = "train_request"

(***************************************************************************)
(* C14  Hold step: in a tick in which a train is within TRAIN_WARN_DIST of *)
(* an EMS-blocked crossing and its remaining budget at the start of the    *)
(* tick is positive (an absent entry counts as TRAIN_HOLD_MAX), exactly    *)
(* one slowDown directive is issued for the train, the entry ends the tick *)
(* at the previous remaining value minus one, no release directive is      *)
(* issued, and the train's link is in no green set.                        *)
(***************************************************************************)
C14_HoldStep ==
    [][\A k \in Keys :
          LET left == IF k \in DOMAIN train_hold_left
                      THEN train_hold_left[k] ELSE TRAIN_HOLD_MAX
          IN  (TrainNearAt(k)' /\ EmsClaimAt(k[1])' /\ left > 0) =>
                /\ Cardinality({d \in directives' :
                        d.veh = k[2] /\ d.op = "slowDown"}) = 1
                /\ k \in DOMAIN train_hold_left'
                /\ train_hold_left'[k] = left - 1
                /\ \A d \in directives' : d.veh = k[2] => d.op # "setSpeed"
                /\ \A x \in DOMAIN iter'.train_green :
                        x = k[1] => TrainLink(k)' \notin iter'.train_green[x]
                /\ TrainLink(k)' \notin decision'[k[1]].greens
                /\ \A s \in IssuedStates(k[1])' : TrainLink(k)' \notin GreenIn(s)]_vars

\* the first hold of a train: one slowDown, the entry at TRAIN_HOLD_MAX - 1
C14_Witness ==
    \E k \in Keys :
        /\ held_run[k] = 1
        /\ EmsClaimAt(k[1])
        /\ SlowedNow(k)
        /\ train_hold_left[k] = TRAIN_HOLD_MAX - 1
        /\ k[1] \notin DOMAIN iter.train_green

(***************************************************************************)
(* C15  Topology fail-fast: when an intersection reports zero controlled   *)
(* links, start-up ends in a configuration error and the control loop      *)
(* never begins: no tick is taken, no record with n = 0 is in use while    *)
(* the loop runs.                                                          *)
(***************************************************************************)
C15_FailFast ==
    (\E tls_id \in TLS : tls_meta[tls_id].n = 0) => ~Ticked

(***************************************************************************)
(* C16  Command application failure: when the mover rejects the state      *)
(* write for one intersection in a tick, that intersection gets no command *)
(* in the tick, every other touched intersection is still commanded, and   *)
(* the control loop goes on to the next tick.                              *)
(***************************************************************************)
C16_RejectedWriteSkipped ==
    rejected # {} =>
        /\ \A tls_id \in rejected : IssuedStates(tls_id) = {}
        /\ \A tls_id \in iter.touched \ rejected : IssuedStates(tls_id) # {}
        /\ running

(***************************************************************************)
(* C17  Missing observation: a vehicle that has vanished, that reports no  *)
(* next intersection, or that cannot be queried contributes no EMS claim,  *)
(* no train-green request, no directive and no ledger charge in the tick,  *)
(* and the tick still completes for every other vehicle and intersection:  *)
(* the loop keeps running, every other emergency vehicle within EMS_DIST   *)
(* gets its link green, every other train in a warn zone gets its          *)
(* directive, and every crossing gets its command.  Ticks in which the     *)
(* mover rejects a state write are not concerned.                          *)
(***************************************************************************)
Missing(v) ==
    \/ ~obs[v].present
    \/ obs[v].nxt = << >>
    \/ v \in unqueryable

C17_MissingObservation ==
    [][\A v \in Vehicles :
          (Missing(v)' /\ rejected' = {}) =>
            /\ \A d \in directives' : d.veh # v
            /\ \A tls_id \in DOMAIN iter'.ems_green :
                    iter'.ems_green[tls_id] \subseteq
                        {obs'[w].nxt[1].link :
                            w \in {x \in Vehicles :
                                    ~Missing(x)' /\ EmsWithin(x, tls_id)'}}
            /\ \A tls_id \in DOMAIN iter'.train_green :
                    iter'.train_green[tls_id] \subseteq
                        {TrainLink(k)' :
                            k \in {j \in Keys : /\ ~Missing(j[2])'
                                               /\ j[1] = tls_id
                                               /\ TrainNearAt(j)'}}
            /\ \A k \in Keys :
                    (k[2] = v /\ k \in DOMAIN train_hold_left') =>
                        /\ k \in DOMAIN train_hold_left
                        /\ train_hold_left'[k] = train_hold_left[k]
            /\ running'
            /\ \A w \in Vehicles, tls_id \in TLS :
                    (~Missing(w)' /\ EmsWithin(w, tls_id)') =>
                        /\ IssuedStates(tls_id)' # {}
                        /\ \A s \in IssuedStates(tls_id)' :
                                obs'[w].nxt[1].link \in GreenIn(s)
            /\ \A k \in Keys :
                    (~Missing(k[2])' /\ TrainNearAt(k)') =>
                        (SlowedNow(k)' \/ ReleasedNow(k)')
            /\ \A tls_id \in Crossings : IssuedStates(tls_id)' # {}]_vars

(***************************************************************************)
(* C18  Event records: in every tick each touched intersection (one with   *)
(* an entry in ems_green, train_green or crossing_road_green) gets exactly *)
(* one event record and exactly one state command, an untouched one gets   *)
(* neither, the record carries the state vector commanded in the tick and  *)
(* the time of the tick, and the tick times never decrease, so the times   *)
(* of the appended records are non-decreasing over the run.                *)
(***************************************************************************)
TouchedNow ==
    DOMAIN iter.ems_green \cup DOMAIN iter.train_green
        \cup DOMAIN iter.crossing_road_green

EventsOf(tls_id) == {i \in 1..Len(events) : events[i].tls_id = tls_id}

CmdsOf(tls_id) == {i \in 1..Len(tls_cmds) : tls_cmds[i].tls_id = tls_id}

C18_EventRecords ==
    /\ [](\A tls_id \in TLS :
            IF tls_id \in TouchedNow
            THEN /\ Cardinality(EventsOf(tls_id)) = 1
                 /\ Cardinality(CmdsOf(tls_id)) = 1
                 /\ \A i \in EventsOf(tls_id), j \in CmdsOf(tls_id) :
                        events[i].state = tls_cmds[j].state
            ELSE EventsOf(tls_id) = {} /\ CmdsOf(tls_id) = {})
    /\ [](\A i \in 1..Len(events) : events[i].time = t)
    /\ [][t' >= t]_vars

\* the second tick touches the crossing and the road junction: two records
\* stamped with the time of the tick, each with the vector commanded
C18_Witness ==
    /\ t = 2 * StepLen
    /\ TouchedNow = {"X", "Y"}
    /\ Len(events) = 2
    /\ Len(tls_cmds) = 2
    /\ events[1].tls_id = "Y"
    /\ events[1].time = t
    /\ events[1].state = tls_cmds[1].state

(***************************************************************************)
(* C19  Intersection independence: the decision of an intersection X in a  *)
(* tick (greens, force_red, event_type; or no decision at all) is the one  *)
(* arbitrate gives for every snapshot that agrees with the tick's snapshot *)
(* on the vehicles whose next intersection is X and every ledger that      *)
(* agrees with the tick's ledger on the entries keyed by X: observations   *)
(* and ledger entries of other intersections do not change it.             *)
(***************************************************************************)
Targets(o, v, tls_id) ==
    /\ o[v].present
    /\ o[v].nxt # << >>
    /\ o[v].nxt[1].tls = tls_id

SameView(o1, o2, tls_id) ==
    \A v \in Vehicles :
        /\ Targets(o1, v, tls_id) = Targets(o2, v, tls_id)
        /\ Targets(o1, v, tls_id) => o1[v] = o2[v]

SameEntries(L1, L2, tls_id) ==
    \A k \in Keys :
        k[1] = tls_id =>
            /\ (k \in DOMAIN L1) = (k \in DOMAIN L2)
            /\ k \in DOMAIN L1 => L1[k] = L2[k]

DecisionIn(d, tls_id) ==
    IF tls_id \in DOMAIN d
    THEN {[greens |-> d[tls_id].greens,
           force_red |-> d[tls_id].force_red,
           event_type |-> d[tls_id].event_type]}
    ELSE {}

C19_IntersectionIndependence ==
    [][\A tls_id \in TLS :
        \A o2 \in {o \in Observations : SameView(obs', o, tls_id)} :
        \A L2 \in {L \in Ledgers : SameEntries(train_hold_left, L, tls_id)} :
            DecisionIn(arbitrate(o2, L2), tls_id)
                = DecisionIn(decision', tls_id)]_vars

\* the junction Y is claimed by an emergency vehicle while the crossing X,
\* with an exhausted entry in the ledger, serves its train
C19_Witness ==
    /\ EmsClaimAt("Y")
    /\ "X" \in DOMAIN decision
    /\ decision["X"].event_type = "train_request"
    /\ decision["Y"].event_type = "ems_preempt"
    /\ <<"X", "tr">> \in DOMAIN train_hold_left
    /\ train_hold_left[<<"X", "tr">>] = 0

(***************************************************************************)
(* C20  Order independence: the outcome of a tick (the state vector sent   *)
(* to each intersection, the set of directives, the ledger at the end of   *)
(* the tick) is the same for every order in which getIDList() enumerates   *)
(* the vehicles and every order in which the touched set is iterated: the  *)
(* statement-by-statement run gives, for all orders, the one outcome of    *)
(* the tick.                                                               *)
(***************************************************************************)
SentStates ==
    [tls_id \in {tls_cmds[i].tls_id : i \in 1..Len(tls_cmds)} |->
        tls_cmds[CHOOSE i \in 1..Len(tls_cmds) :
                    /\ tls_cmds[i].tls_id = tls_id
                    /\ \A j \in 1..Len(tls_cmds) :
                            tls_cmds[j].tls_id = tls_id => j <= i].state]

C20_OrderIndependence ==
    [][\A ids1, ids2 \in Orders(getIDList(obs')) :
          tick_outcomes(obs', train_hold_left, ids1, ids2)
              = {[states |-> SentStates',
                  directives |-> directives',
                  ledger |-> train_hold_left']}]_vars

\* three vehicles enumerated, two emergency vehicles claiming two links of
\* the crossing, the train held, and the junction untouched
C20_Witness ==
    /\ Cardinality(getIDList(obs)) = 3
    /\ "X" \in DOMAIN iter.ems_green
    /\ iter.ems_green["X"] = {0, 1}
    /\ \E k \in Keys : SlowedNow(k) /\ train_hold_left[k] = 4
    /\ "X" \in DOMAIN SentStates

(***************************************************************************)
(* C21  Forced-red is redundant: in every decision of every tick the       *)
(* force_red set is disjoint from the greens, so the state vector built    *)
(* has every link of greens green: the overrides applied after the greens  *)
(* turn no green-designated link red.                                      *)
(***************************************************************************)
C21_ForcedRedRedundant ==
    \A tls_id \in DOMAIN decision :
        /\ decision[tls_id].greens \cap decision[tls_id].force_red = {}
        /\ GreenIn(decision[tls_id].state) = decision[tls_id].greens
        /\ \A s \in IssuedStates(tls_id) : GreenIn(s) = decision[tls_id].greens

\* an EMS decision at the crossing: greens and force_red both non-empty
C21_Witness ==
    /\ "X" \in DOMAIN decision
    /\ decision["X"].event_type = "ems_preempt"
    /\ decision["X"].greens = {0}
    /\ decision["X"].force_red = {2, 3}
    /\ IssuedStates("X") = {<<"G", "r", "r", "r">>}

(***************************************************************************)
(* C22  State vector construction: build_state(n, greens, force_red)       *)
(* returns a vector of length n in which position i is "G" iff i is in     *)
(* greens and not in force_red, and "r" otherwise, for every n and every   *)
(* pair of index sets within 0..n-1.                                       *)
(***************************************************************************)
C22_BuildState ==
    call.fn = "build_state" =>
        /\ Len(call.result) = call.n
        /\ \A i \in 0..(call.n - 1) :
                IF i \in call.greens /\ i \notin call.force_red
                THEN call.result[i + 1] = "G"
                ELSE call.result[i + 1] = "r"

\* a call in which a link is both in greens and in force_red
C22_Witness ==
    /\ call.fn = "build_state"
    /\ call.n = 3
    /\ call.greens = {0, 2}
    /\ call.force_red = {2}
    /\ call.result = <<"G", "r", "r">>

(***************************************************************************)
(* C23  Topology classification: for every intersection, rail_idxs and     *)
(* road_idxs are disjoint and together are exactly the indices 0..n-1, a   *)
(* link is in rail_idxs iff its incoming edge is a rail approach (its      *)
(* identifier starts with rail_), and is_crossing is true iff rail_idxs is *)
(* non-empty.  This holds of the record built for any list of controlled   *)
(* links and of the records of tls_meta, which the loop only reads.        *)
(***************************************************************************)
WellClassified(ctrl, rec) ==
    /\ rec.n = Len(ctrl)
    /\ rec.rail_idxs \cap rec.road_idxs = {}
    /\ rec.rail_idxs \cup rec.road_idxs = 0..(Len(ctrl) - 1)
    /\ \A idx \in 0..(Len(ctrl) - 1) :
            (idx \in rec.rail_idxs) = (ctrl[idx + 1][1] = "rail_")
    /\ rec.is_crossing = (rec.rail_idxs # {})

SlowSpeedMonotone ==
    \A d1, d2 \in 0..(TRAIN_WARN_DIST - 1) :
        d1 <= d2 => slow_speed(d1) <= slow_speed(d2)

C24_GraduatedSlowdown ==
    /\ SlowSpeedMonotone
    /\ \A d \in directives :
            d.op = "slowDown" =>
                LET dist == obs[d.veh].nxt[1].dist
                IN  /\ dist < TRAIN_WARN_DIST
                    /\ \/ dist < 25 /\ d.arg = 1
                       \/ 25 <= dist /\ dist < 70 /\ d.arg = 30
                       \/ 70 <= dist /\ dist < TRAIN_WARN_DIST /\ d.arg = 60

\* a train 70 m from the blocked crossing is slowed to 6.0 m/s
C24_Witness ==
    /\ obs["tr"].nxt # << >>
    /\ obs["tr"].nxt[1].dist = 70
    /\ [veh |-> "tr", op |-> "slowDown", arg |-> 60] \in directives

(***************************************************************************)
(* C25  PreemptWindow lifecycle: at the end of every tick each touched     *)
(* intersection has its window at t + PULSE + 0.1, and every entry left in *)
(* preempt_until expires strictly after t: the entries with expiry <= t    *)
(* have been removed.                                                      *)
(***************************************************************************)
C25_PreemptWindow ==
    /\ \A tls_id \in TouchedNow :
            /\ tls_id \in DOMAIN preempt_until
            /\ preempt_until[tls_id] = t + PULSE + 1
    /\ \A tls_id \in DOMAIN preempt_until : preempt_until[tls_id] > t

\* in the second tick only the crossing is touched: it has a fresh window
\* and no other window is left
C25_Witness ==
    /\ t = 2 * StepLen
    /\ TouchedNow = {"X"}
    /\ DOMAIN preempt_until = {"X"}
    /\ preempt_until["X"] = t + PULSE + 1
    /\ obs["e1"].nxt # << >>
    /\ obs["e1"].nxt[1].tls = "X"

(***************************************************************************)
(* C26  Signal state does not depend on the ledger: the state vectors and  *)
(* the policy tags issued in a tick are those arbitrate gives for the      *)
(* tick's snapshot with any ledger whatsoever; the ledger only changes the *)
(* directives sent to the trains.                                          *)
(***************************************************************************)
StatesAndTags(d) ==
    [tls_id \in DOMAIN d |->
        [state |-> d[tls_id].state, event_type |-> d[tls_id].event_type]]

C26_StateIgnoresLedger ==
    [][\A L2 \in Ledgers :
          /\ StatesAndTags(arbitrate(obs', L2)) = StatesAndTags(decision')
          /\ \A tls_id \in DOMAIN decision' :
                IssuedStates(tls_id)' = {arbitrate(obs', L2)[tls_id].state}]_vars

\* the crossing is claimed, the train's budget is exhausted, it is released
\* and asks for its link: the state issued is the one of the EMS decision
C26_Witness ==
    \E k \in Keys :
        /\ EmsClaimAt(k[1])
        /\ ReleasedNow(k)
        /\ k \in DOMAIN train_hold_left
        /\ train_hold_left[k] = 0
        /\ k[1] \in DOMAIN iter.train_green
        /\ decision[k[1]].event_type = "ems_preempt"
        /\ TrainLink(k) \notin GreenIn(decision[k[1]].state)

(***************************************************************************)
(* C27  Policy coverage: in every tick no intersection has both a          *)
(* train_green entry and a crossing_road_green entry, every touched        *)
(* intersection is tagged ems_preempt, train_request or road_keep_green    *)
(* (never other), and an intersection that is not a crossing is touched    *)
(* iff an emergency vehicle claims it.                                     *)
(***************************************************************************)
PolicyTags == {"ems_preempt", "train_request", "road_keep_green"}

C27_PolicyCoverage ==
    \A tls_id \in TLS :
        /\ ~(/\ tls_id \in DOMAIN iter.train_green
             /\ tls_id \in DOMAIN iter.crossing_road_green)
        /\ tls_id \in TouchedNow =>
                /\ tls_id \in DOMAIN decision
                /\ decision[tls_id].event_type \in PolicyTags
                /\ \A i \in EventsOf(tls_id) : events[i].event_type \in PolicyTags
                /\ \A i, j \in EventsOf(tls_id) :
                        events[i].event_type = events[j].event_type
        /\ tls_id \notin Crossings => (tls_id \in TouchedNow) = EmsClaimAt(tls_id)

\* a train 70 m from the junction Y, which no emergency vehicle claims: Y
\* is not touched, the crossing gets its road_keep_green
C27_Witness ==
    /\ obs["tr"].nxt # << >>
    /\ obs["tr"].nxt[1].tls = "Y"
    /\ ~EmsClaimAt("Y")
    /\ TouchedNow = {"X"}
    /\ decision["X"].event_type = "road_keep_green"

(***************************************************************************)
(* C28  soul_train exclusivity: no state the soul_train controller sends   *)
(* - the one of start-up and the one of every call of force() in a tick,   *)
(* the first of two calls included - has a road link and a rail link green *)
(* at the same time.                                                       *)
(***************************************************************************)
C28_SoulExclusivity ==
    \A i \in 1..Len(soul_forced) :
        ~(/\ GreenIn(soul_forced[i].state) \cap soul_road_idxs # {}
          /\ GreenIn(soul_forced[i].state) \cap soul_rail_idxs # {})

\* a tick with two calls of force(): road green, then rail green
C28_Witness ==
    /\ Len(soul_forced) = 2
    /\ GreenIn(soul_forced[1].state) = soul_road_idxs
    /\ GreenIn(soul_forced[2].state) = soul_rail_idxs
    /\ soul_rail_idxs # {}
    /\ soul_road_idxs # {}

(***************************************************************************)
(* C29  soul_train total hold: the number of ticks in which a train is     *)
(* held or slowed (setSpeed 0 or slowDown) is at most TRAIN_HOLD_MAX,      *)
(* whatever the sequence of EMS presence and absence while the train is    *)
(* within the warn distance.                                               *)
(***************************************************************************)
C29_SoulTotalHold ==
    \A v \in SoulTrains : soul_held_total[v] <= SOUL_TRAIN_HOLD_MAX

(***************************************************************************)
(* C30  soul_train safety cap: in a tick in which the closest train is     *)
(* within TRAIN_WARN_DIST, an emergency vehicle is close and the train's   *)
(* budget is exhausted, the controller sends road green / rail red and     *)
(* then rail green / road red, so the state in force at the end of the     *)
(* tick has the rail links green and every road link red, and the train is *)
(* released to free running and not held.                                  *)
(***************************************************************************)
SoulEmsClose ==
    \E v \in SoulEms :
        soul_obs.dist[v] >= 0 /\ soul_obs.dist[v] <= SOUL_EMS_DIST

SoulTrainNear ==
    /\ soul_closest \in SoulTrains
    /\ soul_obs.dist[soul_closest] < SOUL_TRAIN_WARN_DIST

C30_SoulSafetyCap ==
    [][(/\ SoulTrainNear'
        /\ SoulEmsClose'
        /\ soul_closest' \in DOMAIN soul_train_hold_left
        /\ soul_train_hold_left[soul_closest'] <= 0) =>
            /\ Len(soul_forced') = 2
            /\ GreenIn(soul_forced'[1].state) = soul_road_idxs
            /\ GreenIn(soul_forced'[2].state) = soul_rail_idxs
            /\ GreenIn(soul_forced'[2].state) \cap soul_road_idxs = {}
            /\ [veh |-> soul_closest', op |-> "setSpeed", arg |-> -10]
                    \in soul_directives'
            /\ \A d \in soul_directives' :
                    d.veh = soul_closest' =>
                        ~(d.op = "slowDown" \/ (d.op = "setSpeed" /\ d.arg = 0))]_vars

\* the thirteenth tick of a train kept near the crossing under an EMS: the
\* entry is at zero, two states were sent and the train is released
C30_Witness ==
    /\ SoulTrainNear
    /\ SoulEmsClose
    /\ soul_held_total[soul_closest] = SOUL_TRAIN_HOLD_MAX
    /\ soul_train_hold_left[soul_closest] = 0
    /\ Len(soul_forced) = 2
    /\ [veh |-> soul_closest, op |-> "setSpeed", arg |-> -10] \in soul_directives

(***************************************************************************)
(* C31  Preempt debounce (preempt_hard.py, preemption_demo.py).            *)
(* - Any two forced-green commands ever sent to the same intersection are  *)
(*   at least REARM_SEC of simulation time apart; in particular one        *)
(*   iteration sends an intersection at most one command.                  *)
(* - An emergency vehicle whose next intersection was preempted less than  *)
(*   REARM_SEC ago causes no command: the iteration sends that             *)
(*   intersection nothing, whatever the vehicle's distance and speed.      *)
(***************************************************************************)
LastPreemption(tls) ==
    {pre_history[i].t : i \in {j \in DOMAIN pre_history :
        /\ pre_history[j].tls = tls
        /\ \A k \in DOMAIN pre_history :
                pre_history[k].tls = tls => pre_history[k].t <= pre_history[j].t}}

C31_PreemptDebounce ==
    /\ [](\A i, j \in DOMAIN pre_history :
            (i < j /\ pre_history[i].tls = pre_history[j].tls)
                => pre_history[j].t - pre_history[i].t >= REARM_SEC(pre_prog))
    /\ [][\A tls \in pre_requests' :
            (\E last \in LastPreemption(tls) : pre_t' - last < REARM_SEC(pre_prog))
                => \A i \in DOMAIN pre_cmds' : pre_cmds'[i].tls # tls]_vars

\* preemption_demo has just preempted the intersection X a second time,
\* exactly REARM_SEC after the first time
C31_Witness ==
    /\ \E i, j \in DOMAIN pre_history :
            /\ i < j
            /\ pre_history[i].tls = "X" /\ pre_history[j].tls = "X"
            /\ pre_history[j].t - pre_history[i].t = REARM_SEC(pre_prog)
            /\ pre_history[j].t = pre_t
    /\ pre_prog = "preemption_demo"

(***************************************************************************)
(* C32  Preempt/restore lifecycle (preempt_network.py).                    *)
(* - An intersection that enters the preempting set in an iteration has    *)
(*   its plan saved in that iteration, and it enters only in an iteration  *)
(*   that has a request for it.                                            *)
(* - The saved program and phase of an intersection that is in the         *)
(*   preempting set do not change.                                         *)
(* - Every member of the preempting set has a saved program entry.         *)
(* - A member of the preempting set leaves it in an iteration exactly when *)
(*   that iteration has no request for it and at least RESTORE_COOLDOWN_S  *)
(*   has passed since the last iteration that had one.                     *)
(***************************************************************************)
C32_PreemptRestore ==
    /\ [](net_preempting \subseteq DOMAIN net_saved_prog)
    /\ [][\A tls \in TLS :
            /\ (tls \notin net_preempting /\ tls \in net_preempting')
                => /\ tls \in DOMAIN net_requests'
                   /\ tls \in DOMAIN net_saved_prog'
                   /\ tls \in DOMAIN net_saved_phase'
            /\ tls \in net_preempting
                => /\ net_saved_prog'[tls] = net_saved_prog[tls]
                   /\ net_saved_phase'[tls] = net_saved_phase[tls]
                   /\ (tls \notin net_preempting')
                        <=> /\ tls \notin DOMAIN net_requests'
                            /\ net_t' - net_asked_at[tls] >= RESTORE_COOLDOWN_S]_vars

\* X was last requested RESTORE_COOLDOWN_S ago: it has just left the
\* preempting set, and its saved phase 1 has been set again
C32_Witness ==
    /\ "X" \notin net_preempting
    /\ "X" \notin DOMAIN net_requests
    /\ net_asked_at["X"] >= 1
    /\ net_t - net_asked_at["X"] = RESTORE_COOLDOWN_S
    /\ [op |-> "setPhase", tls |-> "X", phase |-> 1] \in net_cmds

(***************************************************************************)
(* C33  Experiment tracking closure (run_experiment.py).                   *)
(* - When an iteration finds a tracked emergency vehicle heading to an     *)
(*   intersection other than the one of its open record, that record is    *)
(*   removed from active in this iteration and results holds it exactly    *)
(*   once.                                                                 *)
(* - No record is appended to results twice.                               *)
(* - When the run has ended, active is empty: every record that was        *)
(*   opened has been closed.                                               *)
(***************************************************************************)
RowsOf(results, tls, vid, start_t) ==
    {i \in DOMAIN results :
        /\ results[i].tls_id = tls
        /\ results[i].ems_id = vid
        /\ results[i].start_t = start_t}

C33_TrackingClosure ==
    /\ [][\A k \in DOMAIN exp_active :
            (/\ exp_t' # exp_t
             /\ exp_obs'[k[2]].present
             /\ exp_obs'[k[2]].nxt # << >>
             /\ exp_obs'[k[2]].nxt[1].tls # k[1])
                => /\ k \notin DOMAIN exp_active'
                   /\ Cardinality(RowsOf(exp_results', k[1], k[2],
                                         exp_active[k].start_t)) = 1]_vars
    /\ [](\A i, j \in DOMAIN exp_results :
            (/\ exp_results[i].tls_id = exp_results[j].tls_id
             /\ exp_results[i].ems_id = exp_results[j].ems_id
             /\ exp_results[i].start_t = exp_results[j].start_t) => i = j)
    /\ [](exp_mode = "done" => DOMAIN exp_active = {})

=============================================================================
